---- MODULE Spec2Model ----
(***************************************************************************)
(* webwaka-core-receipts: the receipt service (generate / get / verify /   *)
(* void / refund / list), its hash utilities and the in-memory storage,    *)
(* as a state machine.                                                     *)
(*                                                                         *)
(* Strings are TLA+ strings, so the storage keys `${tenantId}:${id}` are   *)
(* real concatenations.  Dates are integers (milliseconds since the        *)
(* epoch).  `undefined` and `null` are the sentinels below.                *)
(***************************************************************************)
EXTENDS Integers, Sequences, FiniteSets, TLC

\* ------------------------------------------------------------- bounds
\* Largest number of receipts the store holds in a run.
MaxReceipts == 2
\* Number of service calls that can be in flight at once (SpecConc).
MaxCalls == 3

\* ------------------------------------------------------------- values
undefined == "<undefined>"
Null == [null |-> TRUE]

ISSUED == "issued"
VOIDED == "voided"
REFUNDED == "refunded"

\* An optional Record<string, unknown>: absent, or a map from keys to values.
NoMetadata == [defined |-> FALSE, kv |-> <<>>]
Metadata(kv) == [defined |-> TRUE, kv |-> kv]

\* ------------------------------------------------------------- strings
LowerChars == "abcdefghijklmnopqrstuvwxyz"
UpperChars == "ABCDEFGHIJKLMNOPQRSTUVWXYZ"
OtherChars == "0123456789{}[]:,.-<>_ \""
Alphabet == LowerChars \o UpperChars \o OtherChars

CharAt(s, i) == SubSeq(s, i, i)

\* The code unit of every character of the alphabet (its place in Alphabet).
CharCode == [c \in {CharAt(Alphabet, i) : i \in 1..Len(Alphabet)} |->
               CHOOSE i \in 1..Len(Alphabet) : CharAt(Alphabet, i) = c]

\* String.prototype.toUpperCase, one character.
UpperOf == [c \in DOMAIN CharCode |->
              IF CharCode[c] <= Len(LowerChars)
                THEN CharAt(UpperChars, CharCode[c]) ELSE c]

RECURSIVE toUpperCase(_)
toUpperCase(s) ==
  IF s = "" THEN ""
  ELSE UpperOf[CharAt(s, 1)] \o toUpperCase(SubSeq(s, 2, Len(s)))

\* String.prototype.toLowerCase, one character.
LowerOf == [c \in DOMAIN CharCode |->
              IF CharCode[c] > Len(LowerChars) /\ CharCode[c] <= 2 * Len(LowerChars)
                THEN CharAt(LowerChars, CharCode[c] - Len(LowerChars)) ELSE c]

RECURSIVE toLowerCase(_)
toLowerCase(s) ==
  IF s = "" THEN ""
  ELSE LowerOf[CharAt(s, 1)] \o toLowerCase(SubSeq(s, 2, Len(s)))

\* Number -> decimal text, as JSON.stringify / String(n) write a natural number.
Digits == "0123456789"
RECURSIVE NumToString(_)
NumToString(n) ==
  IF n < 10 THEN CharAt(Digits, n + 1)
  ELSE NumToString(n \div 10) \o CharAt(Digits, (n % 10) + 1)

\* Date.prototype.toISOString for an instant within the first second of the epoch.
toISOString(ms) ==
  "1970-01-01T00:00:00."
    \o (IF ms < 10 THEN "00" ELSE IF ms < 100 THEN "0" ELSE "")
    \o NumToString(ms) \o "Z"

Quote(s) == "\"" \o s \o "\""

\* ------------------------------------------------------------- validation
\* z.string().min(lo).max(hi)
StringBetween(s, lo, hi) == Len(s) >= lo /\ Len(s) <= hi

TenantIdSchema(t) == StringBetween(t, 1, 255)
UserIdSchema(u) == StringBetween(u, 1, 255)
TransactionIdSchema(x) == StringBetween(x, 1, 255)
CurrencySchema(c) == Len(c) = 3

LineItemSchema(li) ==
  /\ StringBetween(li.description, 1, 500)
  /\ li.quantity > 0
  /\ li.unitPrice >= 0
  /\ li.totalPrice >= 0

TotalsAgree(input) == input.subtotal + input.tax = input.total

\* The object schema without its refinement on the totals.
CreateReceiptInputSchemaNoRefine(input) ==
  /\ TenantIdSchema(input.tenantId)
  /\ TransactionIdSchema(input.transactionId)
  /\ UserIdSchema(input.issuedBy)
  /\ Len(input.lineItems) >= 1
  /\ \A i \in 1..Len(input.lineItems) : LineItemSchema(input.lineItems[i])
  /\ input.subtotal >= 0
  /\ input.tax >= 0
  /\ input.total >= 0
  /\ CurrencySchema(input.currency)
  /\ StringBetween(input.paymentMethod, 1, 100)

CreateReceiptInputSchema(input) ==
  /\ TenantIdSchema(input.tenantId)
  /\ TransactionIdSchema(input.transactionId)
  /\ UserIdSchema(input.issuedBy)
  /\ Len(input.lineItems) >= 1
  /\ \A i \in 1..Len(input.lineItems) : LineItemSchema(input.lineItems[i])
  /\ input.subtotal >= 0
  /\ input.tax >= 0
  /\ input.total >= 0
  /\ CurrencySchema(input.currency)
  /\ StringBetween(input.paymentMethod, 1, 100)
  /\ TotalsAgree(input)

\* The parsed value: the currency is upper-cased by the schema's transform.
ParsedCreateInput(input) == [input EXCEPT !.currency = toUpperCase(input.currency)]

\* The void schema without the bounds on the reason.
VoidReceiptInputSchemaAnyReason(input) ==
  /\ TenantIdSchema(input.tenantId)
  /\ Len(input.receiptId) >= 1
  /\ UserIdSchema(input.voidedBy)

VoidReceiptInputSchema(input) ==
  /\ TenantIdSchema(input.tenantId)
  /\ Len(input.receiptId) >= 1
  /\ UserIdSchema(input.voidedBy)
  /\ StringBetween(input.reason, 1, 500)

RefundReceiptInputSchema(input) ==
  /\ TenantIdSchema(input.tenantId)
  /\ Len(input.receiptId) >= 1
  /\ UserIdSchema(input.refundedBy)
  /\ StringBetween(input.reason, 1, 500)

\* ------------------------------------------------------------- state
VARIABLES
  receipts,          \* InMemoryReceiptStorage.receipts: key -> receipt
  receiptKeys,       \* the insertion order of the keys of `receipts` (a JS Map keeps it)
  transactionIndex,  \* InMemoryReceiptStorage.transactionIndex: txKey -> receiptId
  generated,         \* history: key -> the receipt as generateReceipt returned it
  calls,             \* service calls in flight (SpecConc): call id -> call record
  last               \* the latest completed call: its operation and how it ended

store == <<receipts, receiptKeys, transactionIndex>>
vars == <<receipts, receiptKeys, transactionIndex, generated, calls, last>>

\* ------------------------------------------------------------- hash utilities
\* The canonical JSON text is modelled as the sequence of the values it writes, in
\* the order of the (sorted) keys: a number as itself plus one, a string as its
\* code in StringTable, a value that is left out (undefined) as 0, an array as its
\* length followed by its elements.  Two texts are equal exactly when their
\* sequences are.
StringTable ==
  << "", "a", "a:b", "x", "b:x", "c", "d", "b:c", "u", "v", "w", "r", "n", "z",
     "Coffee", "Pastry", "NGN", "ngn", "NG", "USD", "cash", "card", "ev",
     "issued", "voided", "refunded", "abc123", "ABCD-1234" >>

StringCode == [s \in {StringTable[i] : i \in 1..Len(StringTable)} |->
                 CHOOSE i \in 1..Len(StringTable) : StringTable[i] = s]

StringValue(s) == IF s = undefined THEN 0 ELSE StringCode[s]
NumberValue(n) == n + 1

RECURSIVE Flatten(_)
Flatten(seqs) == IF seqs = <<>> THEN <<>> ELSE Head(seqs) \o Flatten(Tail(seqs))

\* fast-json-stable-stringify of a line item: every key, sorted (description,
\* quantity, totalPrice, unitPrice).
StableLineItem(li) ==
  << StringValue(li.description), NumberValue(li.quantity),
     NumberValue(li.totalPrice), NumberValue(li.unitPrice) >>

\* dist/hash-utils.js: stringify(hashInput), hashInput without status and
\* metadata; keys sorted.
CanonicalDist(receipt) ==
  << StringValue(receipt.auditEventId),
     StringValue(receipt.currency),
     NumberValue(receipt.issuedAt),
     StringValue(receipt.issuedBy),
     Len(receipt.lineItems) >>
  \o Flatten([i \in 1..Len(receipt.lineItems) |-> StableLineItem(receipt.lineItems[i])])
  \o << StringValue(receipt.paymentMethod),
        StringValue(receipt.receiptId),
        NumberValue(receipt.subtotal),
        NumberValue(receipt.tax),
        StringValue(receipt.tenantId),
        NumberValue(receipt.total),
        StringValue(receipt.transactionId) >>

\* src/hash-utils.ts: Object.keys(hashInput).sort(), used as the replacer array.
HashInputKeys ==
  << "auditEventId", "currency", "issuedAt", "issuedBy", "lineItems", "metadata",
     "paymentMethod", "receiptId", "status", "subtotal", "tax", "tenantId", "total",
     "transactionId" >>

\* JSON.stringify of a nested string map under a replacer array: only the keys
\* the array names are written, in the array's order (each as its place in the
\* array and its value), after their number.
FilteredObject(kv, allow) ==
  LET written == SelectSeq([i \in 1..Len(allow) |-> i],
                           LAMBDA i : /\ allow[i] \in DOMAIN kv
                                      /\ kv[allow[i]] # undefined)
  IN <<Len(written)>>
       \o Flatten([j \in 1..Len(written) |->
                     <<written[j], StringValue(kv[allow[written[j]]])>>])

\* A line item under the replacer array: description, quantity, unitPrice and
\* totalPrice are not in the array, so every item is written as {}.
FilteredLineItem(li) == FilteredObject(li, HashInputKeys)

\* src/hash-utils.ts: JSON.stringify(hashInput, sortedKeys), hashInput with status
\* and metadata.
CanonicalSrc(receipt) ==
  << StringValue(receipt.auditEventId),
     StringValue(receipt.currency),
     NumberValue(receipt.issuedAt),
     StringValue(receipt.issuedBy),
     Len(receipt.lineItems) >>
  \o Flatten([i \in 1..Len(receipt.lineItems) |-> FilteredLineItem(receipt.lineItems[i])])
  \o (IF receipt.metadata.defined
        THEN <<1>> \o FilteredObject(receipt.metadata.kv, HashInputKeys)
        ELSE <<0>>)
  \o << StringValue(receipt.paymentMethod),
        StringValue(receipt.receiptId),
        StringValue(receipt.status),
        NumberValue(receipt.subtotal),
        NumberValue(receipt.tax),
        StringValue(receipt.tenantId),
        NumberValue(receipt.total),
        StringValue(receipt.transactionId) >>

HexDigits == "0123456789abcdef"
Hex1(n) == CharAt(HexDigits, n + 1)
Hex2 == [n \in 0..255 |-> Hex1(n \div 16) \o Hex1(n % 16)]
Hex4(n) == Hex2[(n \div 256) % 256] \o Hex2[n % 256]

RECURSIVE HexEncode(_)
HexEncode(values) ==
  IF values = <<>> THEN "" ELSE Hex4(Head(values)) \o HexEncode(Tail(values))

\* A 16-bit sum of the values, each weighted by its place.
RECURSIVE Mix(_, _, _)
Mix(values, mult, place) ==
  IF values = <<>> THEN 0
  ELSE (Head(values) * (((place * mult) % 251) + 1)
          + Mix(Tail(values), mult, place + 1)) % 65536

\* createHash('sha256').update(canonical).digest('hex'): a lowercase hex string
\* that is a function of the canonical text alone and differs for different
\* texts.  Here: two 16-bit mixing sums of the text (the leading characters depend
\* on all of it), followed by the hex encoding of the text (the digest is
\* injective).
Sha256Hex(canonical) ==
  Hex4(Mix(canonical, 31, 1)) \o Hex4(Mix(canonical, 17, 1)) \o HexEncode(canonical)

computeReceiptHashDist(receipt) == Sha256Hex(CanonicalDist(receipt))

\* The hash-utils the TypeScript sources of the service import (./hash-utils).
computeReceiptHash(receipt) == Sha256Hex(CanonicalSrc(receipt))

verifyReceiptHash(receipt) == computeReceiptHash(receipt) = receipt.hash

Min(a, b) == IF a < b THEN a ELSE b
\* String.prototype.substring(from, to) for 0 <= from <= to.
substring(s, from, to) == SubSeq(s, Min(from, Len(s)) + 1, Min(to, Len(s)))

\* generateVerificationCode without the toUpperCase.
generateVerificationCodeLower(hash) ==
  LET code == substring(hash, 0, 8)
  IN substring(code, 0, 4) \o "-" \o substring(code, 4, 8)

generateVerificationCode(hash) ==
  LET code == toUpperCase(substring(hash, 0, 8))
  IN substring(code, 0, 4) \o "-" \o substring(code, 4, 8)

\* verifyWithCode comparing the code as supplied.
verifyWithCodeExact(receipt, code) ==
  generateVerificationCode(receipt.hash) = code

\* verifyWithCode that recomputes the hash as well.
verifyWithCodeAndHash(receipt, code) ==
  /\ verifyReceiptHash(receipt)
  /\ generateVerificationCode(receipt.hash) = toUpperCase(code)

verifyWithCode(receipt, code) ==
  generateVerificationCode(receipt.hash) = toUpperCase(code)

\* ------------------------------------------------------------- storage
getKey(tenantId, receiptId) == tenantId \o ":" \o receiptId
getTransactionKey(tenantId, transactionId) == tenantId \o ":" \o transactionId


\* createReceipt with the receipt-key check alone, the transaction index unread.
createReceiptErrorIdOnly(receipt) ==
  IF getKey(receipt.tenantId, receipt.receiptId) \in DOMAIN receipts
    THEN "Receipt already exists"
  ELSE ""

\* createReceipt's two `has` checks: the message of the error it throws, or "".
createReceiptError(receipt) ==
  IF getKey(receipt.tenantId, receipt.receiptId) \in DOMAIN receipts
    THEN "Receipt already exists"
  ELSE IF getTransactionKey(receipt.tenantId, receipt.transactionId)
            \in DOMAIN transactionIndex
    THEN "Receipt already exists for transaction"
  ELSE ""

\* Map.prototype.set: a new key goes last, an existing key keeps its place.
MapSetOrder(order, key) ==
  IF \E i \in 1..Len(order) : order[i] = key THEN order ELSE Append(order, key)


\* createReceipt that leaves the transaction index unwritten.
createReceiptNoIndex(receipt) ==
  LET key == getKey(receipt.tenantId, receipt.receiptId)
  IN /\ receipts' = (key :> receipt) @@ receipts
     /\ receiptKeys' = MapSetOrder(receiptKeys, key)
     /\ UNCHANGED transactionIndex

\* createReceipt's two `set` calls (after the checks passed).
createReceipt(receipt) ==
  LET key == getKey(receipt.tenantId, receipt.receiptId)
      txKey == getTransactionKey(receipt.tenantId, receipt.transactionId)
  IN /\ receipts' = (key :> receipt) @@ receipts
     /\ receiptKeys' = MapSetOrder(receiptKeys, key)
     /\ transactionIndex' = (txKey :> receipt.receiptId) @@ transactionIndex

getReceipt(tenantId, receiptId) ==
  LET key == getKey(tenantId, receiptId)
  IN IF key \in DOMAIN receipts THEN receipts[key] ELSE Null

getReceiptByTransaction(tenantId, transactionId) ==
  LET txKey == getTransactionKey(tenantId, transactionId)
  IN IF txKey \notin DOMAIN transactionIndex THEN Null
     ELSE IF transactionIndex[txKey] = "" THEN Null
     ELSE getReceipt(tenantId, transactionIndex[txKey])


\* updateReceipt pinning neither the receipt id nor the tenant id.
ImmutableInUpdateNoIds == {"transactionId", "issuedAt", "issuedBy"}

\* updateReceipt pinning the two ids alone, the transaction id left to the updates.
ImmutableInUpdateIdsOnly == {"receiptId", "tenantId"}

ImmutableInUpdate == {"receiptId", "tenantId", "transactionId", "issuedAt", "issuedBy"}

\* { ...existing, ...updates, <the five pinned fields of existing> }
updatedReceipt(existing, updates) ==
  [k \in ImmutableInUpdate |-> existing[k]] @@ updates @@ existing

\* updateReceipt that drops the receipt of a terminal status from the map.
updateReceiptDropping(tenantId, receiptId, updates) ==
  LET key == getKey(tenantId, receiptId)
  IN /\ receipts' = [k \in DOMAIN receipts \ {key} |-> receipts[k]]
     /\ receiptKeys' = SelectSeq(receiptKeys, LAMBDA k : k # key)
     /\ UNCHANGED transactionIndex

\* updateReceipt on a key that is stored.
updateReceipt(tenantId, receiptId, updates) ==
  LET key == getKey(tenantId, receiptId)
  IN /\ receipts' = [receipts EXCEPT ![key] = updatedReceipt(receipts[key], updates)]
     /\ UNCHANGED <<receiptKeys, transactionIndex>>

\* The receipts of the Map in insertion order.
ReceiptValues == [i \in 1..Len(receiptKeys) |-> receipts[receiptKeys[i]]]

\* Array.prototype.sort with (a, b) => b.issuedAt - a.issuedAt: a stable sort,
\* latest first.  Insertion of r behind every element that is not older than it.
RECURSIVE InsertByDate(_, _)
InsertByDate(sorted, r) ==
  IF sorted = <<>> THEN <<r>>
  ELSE IF Head(sorted).issuedAt >= r.issuedAt
    THEN <<Head(sorted)>> \o InsertByDate(Tail(sorted), r)
  ELSE <<r>> \o sorted

RECURSIVE SortByDateDesc(_)
SortByDateDesc(seq) ==
  IF seq = <<>> THEN <<>>
  ELSE InsertByDate(SortByDateDesc(SubSeq(seq, 1, Len(seq) - 1)), seq[Len(seq)])

\* Array.prototype.slice(start, end) for start, end >= 0.
slice(seq, start, end) == SubSeq(seq, Min(start, Len(seq)) + 1, Min(end, Len(seq)))

\* listReceipts without the sort.
listReceiptsUnsorted(tenantId, limit, offset) ==
  slice(SelectSeq(ReceiptValues, LAMBDA r : r.tenantId = tenantId),
        offset, offset + limit)

listReceipts(tenantId, limit, offset) ==
  slice(SortByDateDesc(SelectSeq(ReceiptValues, LAMBDA r : r.tenantId = tenantId)),
        offset, offset + limit)

\* ------------------------------------------------------------- inputs
\* Tenant ids: any string; "" fails TenantIdSchema, "a:b" holds the key separator.
TenantIds == {"", "a", "a:b"}
TransactionIds == {"x", "b:x"}
\* generateId(): randomBytes(16).toString('hex'), a hex string (no ':' in it).
GeneratedIds == {"c", "d"}
\* Receipt ids a caller may pass to a lookup: any string.
LookupIds == GeneratedIds \cup {"b:c"}

Coffee == [description |-> "Coffee", quantity |-> 2, unitPrice |-> 350, totalPrice |-> 700]

PlainCreateInputs ==
  [tenantId : {"a", "a:b"}, transactionId : TransactionIds, issuedBy : {"u"},
   lineItems : {<<Coffee>>}, subtotal : {1}, tax : {0}, total : {1},
   currency : {"ngn"}, paymentMethod : {"cash"}, auditEventId : {undefined},
   metadata : {NoMetadata}]

SomeCreateInput ==
  CHOOSE input \in PlainCreateInputs : input.tenantId = "a" /\ input.transactionId = "x"

\* The same, with caller metadata.
ValidCreateInputs ==
  PlainCreateInputs \cup {[SomeCreateInput EXCEPT !.metadata = Metadata("note" :> "n")]}

\* Inputs the schema rejects: subtotal + tax # total, an empty tenant id.
InvalidCreateInputs ==
  { [SomeCreateInput EXCEPT !.total = 2], [SomeCreateInput EXCEPT !.tenantId = ""] }

CreateInputs == ValidCreateInputs \cup InvalidCreateInputs

VoidInputs ==
  [tenantId : TenantIds, receiptId : LookupIds, voidedBy : {"v"}, reason : {"r"},
   auditEventId : {undefined}]

RefundInputs ==
  [tenantId : TenantIds, receiptId : LookupIds, refundedBy : {"w"}, reason : {"r"},
   auditEventId : {undefined}]

Limits == {1, 100}
Offsets == {0, 1}
\* The instants new Date() returns.
Times == {0}

\* Codes a caller may present: the codes of the stored receipts and a wrong one.
CodesToTry == {"0000-0000"} \cup {receipts[k].verificationCode : k \in DOMAIN receipts}

\* ------------------------------------------------------------- service
\* How a call ends: it returns a value, or it throws an error of some kind.
Returned(value) == [outcome |-> "ok", value |-> value, message |-> ""]
Thrown(kind, message) == [outcome |-> kind, value |-> Null, message |-> message]

\* generateReceipt that computes the hash before the receipt id is assigned.
NewReceiptHashedFirst(validated, receiptId, issuedAt) ==
  LET receiptWithoutHash ==
        [receiptId |-> receiptId,
         tenantId |-> validated.tenantId,
         transactionId |-> validated.transactionId,
         status |-> ISSUED,
         issuedAt |-> issuedAt,
         issuedBy |-> validated.issuedBy,
         lineItems |-> validated.lineItems,
         subtotal |-> validated.subtotal,
         tax |-> validated.tax,
         total |-> validated.total,
         currency |-> validated.currency,
         paymentMethod |-> validated.paymentMethod,
         auditEventId |-> validated.auditEventId,
         verificationCode |-> "",
         metadata |-> validated.metadata]
      hash == computeReceiptHash([receiptWithoutHash EXCEPT !.receiptId = ""])
  IN [hash |-> hash, verificationCode |-> generateVerificationCode(hash)]
       @@ receiptWithoutHash

\* generateReceipt lines 53-86: the receipt built from the validated input.
NewReceipt(validated, receiptId, issuedAt) ==
  LET receiptWithoutHash ==
        [receiptId |-> receiptId,
         tenantId |-> validated.tenantId,
         transactionId |-> validated.transactionId,
         status |-> ISSUED,
         issuedAt |-> issuedAt,
         issuedBy |-> validated.issuedBy,
         lineItems |-> validated.lineItems,
         subtotal |-> validated.subtotal,
         tax |-> validated.tax,
         total |-> validated.total,
         currency |-> validated.currency,
         paymentMethod |-> validated.paymentMethod,
         auditEventId |-> validated.auditEventId,
         verificationCode |-> "",
         metadata |-> validated.metadata]
      hash == computeReceiptHash(receiptWithoutHash)
  IN [hash |-> hash, verificationCode |-> generateVerificationCode(hash)]
       @@ receiptWithoutHash

\* The message of the error generateReceipt throws in the current state, or "":
\* the validation error, or the error of createReceipt, which reads the receipt
\* id, tenant id and transaction id of the receipt it is given and nothing else.
generateReceiptError(input, receiptId) ==
  IF ~CreateReceiptInputSchema(input) THEN "Validation failed"
  ELSE createReceiptError([receiptId |-> receiptId,
                           tenantId |-> ParsedCreateInput(input).tenantId,
                           transactionId |-> ParsedCreateInput(input).transactionId])

\* generateReceipt(input), with the id and the instant it draws: what it returns
\* or throws in the current state.  (The receipt is built before the storage is
\* called; building it has no effect, so it is left out when the call throws.)
generateReceipt(input, receiptId, time) ==
  IF ~CreateReceiptInputSchema(input) THEN Thrown("ValidationError", "Validation failed")
  ELSE IF generateReceiptError(input, receiptId) # ""
    THEN Thrown("Conflict", generateReceiptError(input, receiptId))
  ELSE Returned(NewReceipt(ParsedCreateInput(input), receiptId, time))

svcGetReceipt(tenantId, receiptId) ==
  IF ~TenantIdSchema(tenantId) THEN Thrown("ValidationError", "Validation failed")
  ELSE Returned(getReceipt(tenantId, receiptId))

svcGetReceiptByTransaction(tenantId, transactionId) ==
  IF ~TenantIdSchema(tenantId) THEN Thrown("ValidationError", "Validation failed")
  ELSE Returned(getReceiptByTransaction(tenantId, transactionId))

verifyReceipt(tenantId, receiptId) ==
  IF ~TenantIdSchema(tenantId) THEN Thrown("ValidationError", "Validation failed")
  ELSE LET receipt == getReceipt(tenantId, receiptId)
       IN IF receipt = Null
            THEN Returned([valid |-> FALSE, receipt |-> Null,
                           reason |-> "Receipt not found"])
          ELSE IF ~verifyReceiptHash(receipt)
            THEN Returned([valid |-> FALSE, receipt |-> receipt,
                           reason |-> "Receipt hash does not match content (tampered)"])
          ELSE Returned([valid |-> TRUE, receipt |-> receipt, reason |-> undefined])

verifyReceiptByCode(tenantId, receiptId, code) ==
  IF ~TenantIdSchema(tenantId) THEN Thrown("ValidationError", "Validation failed")
  ELSE LET receipt == getReceipt(tenantId, receiptId)
       IN IF receipt = Null
            THEN Returned([valid |-> FALSE, receipt |-> Null,
                           reason |-> "Receipt not found"])
          ELSE IF ~verifyWithCode(receipt, code)
            THEN Returned([valid |-> FALSE, receipt |-> receipt,
                           reason |-> "Verification code does not match"])
          ELSE Returned([valid |-> TRUE, receipt |-> receipt, reason |-> undefined])

\* getPublicReceiptData that also copies the issuer.
getPublicReceiptDataWithIssuer(tenantId, receiptId) ==
  IF ~TenantIdSchema(tenantId) THEN Thrown("ValidationError", "Validation failed")
  ELSE LET receipt == getReceipt(tenantId, receiptId)
       IN IF receipt = Null THEN Returned(Null)
          ELSE Returned([receiptId |-> receipt.receiptId,
                         verificationCode |-> receipt.verificationCode,
                         issuedAt |-> receipt.issuedAt,
                         issuedBy |-> receipt.issuedBy,
                         total |-> receipt.total,
                         currency |-> receipt.currency,
                         status |-> receipt.status,
                         hash |-> receipt.hash])

getPublicReceiptData(tenantId, receiptId) ==
  IF ~TenantIdSchema(tenantId) THEN Thrown("ValidationError", "Validation failed")
  ELSE LET receipt == getReceipt(tenantId, receiptId)
       IN IF receipt = Null THEN Returned(Null)
          ELSE Returned([receiptId |-> receipt.receiptId,
                         verificationCode |-> receipt.verificationCode,
                         issuedAt |-> receipt.issuedAt,
                         total |-> receipt.total,
                         currency |-> receipt.currency,
                         status |-> receipt.status,
                         hash |-> receipt.hash])

svcListReceipts(tenantId, limit, offset) ==
  IF ~TenantIdSchema(tenantId) THEN Thrown("ValidationError", "Validation failed")
  ELSE Returned(listReceipts(tenantId, limit, offset))

\* The metadata of a receipt, spread into a new object.
Spread(metadata) == IF metadata.defined THEN metadata.kv ELSE <<>>

\* voidReceipt that also writes a hash recomputed for the voided receipt.
voidUpdatesRehashed(receipt, validated, time) ==
  [status |-> VOIDED,
   hash |-> computeReceiptHash([receipt EXCEPT !.status = VOIDED]),
   metadata |-> Metadata(
     [voidedBy |-> validated.voidedBy,
      voidedAt |-> toISOString(time),
      voidReason |-> validated.reason,
      voidAuditEventId |-> validated.auditEventId] @@ Spread(receipt.metadata))]

\* voidReceipt that writes its four keys as the whole metadata.
voidUpdatesWithoutSpread(receipt, validated, time) ==
  [status |-> VOIDED,
   metadata |-> Metadata(
     [voidedBy |-> validated.voidedBy,
      voidedAt |-> toISOString(time),
      voidReason |-> validated.reason,
      voidAuditEventId |-> validated.auditEventId])]

\* The partial update voidReceipt passes to the storage, from the receipt it read.
voidUpdates(receipt, validated, time) ==
  [status |-> VOIDED,
   metadata |-> Metadata(
     [voidedBy |-> validated.voidedBy,
      voidedAt |-> toISOString(time),
      voidReason |-> validated.reason,
      voidAuditEventId |-> validated.auditEventId] @@ Spread(receipt.metadata))]

refundUpdates(receipt, validated, time) ==
  [status |-> REFUNDED,
   metadata |-> Metadata(
     [refundedBy |-> validated.refundedBy,
      refundedAt |-> toISOString(time),
      refundReason |-> validated.reason,
      refundAuditEventId |-> validated.auditEventId] @@ Spread(receipt.metadata))]


\* The checks without the status guard: any stored receipt may be changed.
statusChangeCheckAnyStatus(receipt) ==
  IF receipt = Null THEN "NotFound" ELSE "ok"

\* voidReceipt / refundReceipt after validation, on the receipt the storage
\* returned: the kind of error thrown ("Receipt not found: ...", "Cannot void
\* receipt with status: ..."), or "ok" when the update goes ahead.
statusChangeCheck(receipt) ==
  IF receipt = Null THEN "NotFound"
  ELSE IF receipt.status # ISSUED THEN "InvalidTransition"
  ELSE "ok"

\* How voidReceipt(input) ends in the current state.
voidReceiptOutcome(input) ==
  IF ~VoidReceiptInputSchema(input) THEN "ValidationError"
  ELSE statusChangeCheck(getReceipt(input.tenantId, input.receiptId))

refundReceiptOutcome(input) ==
  IF ~RefundReceiptInputSchema(input) THEN "ValidationError"
  ELSE statusChangeCheck(getReceipt(input.tenantId, input.receiptId))

\* ------------------------------------------------------------- calls, one after another
NoCall == [op |-> "none", phase |-> "idle", input |-> Null, receipt |-> Null,
           outcome |-> "none", message |-> ""]

Done(op, outcome, message) == [op |-> op, outcome |-> outcome, message |-> message]

Init ==
  /\ receipts = <<>>
  /\ receiptKeys = <<>>
  /\ transactionIndex = <<>>
  /\ generated = <<>>
  /\ calls = [c \in 1..MaxCalls |-> NoCall]
  /\ last = Done("none", "none", "")

GenerateReceipt(input, receiptId, time) ==
  /\ generateReceiptError(input, receiptId) = "" => Cardinality(DOMAIN receipts) < MaxReceipts
  /\ \E result \in {generateReceipt(input, receiptId, time)} :
     /\ IF result.outcome = "ok"
          THEN /\ createReceipt(result.value)
               /\ generated' = (getKey(result.value.tenantId, result.value.receiptId)
                                  :> result.value) @@ generated
          ELSE UNCHANGED <<store, generated>>
     /\ last' = Done("generateReceipt", result.outcome, result.message)
     /\ UNCHANGED calls

GetReceipt(tenantId, receiptId) ==
  /\ last' = Done("getReceipt", svcGetReceipt(tenantId, receiptId).outcome, "")
  /\ UNCHANGED <<store, generated, calls>>

GetReceiptByTransaction(tenantId, transactionId) ==
  /\ last' = Done("getReceiptByTransaction",
                  svcGetReceiptByTransaction(tenantId, transactionId).outcome, "")
  /\ UNCHANGED <<store, generated, calls>>

\* What a verification call reports besides its outcome: the reason of the result
\* it returned ("" when the result is valid, or when the call threw).
ReasonOf(result) ==
  IF result.outcome = "ok" /\ result.value.reason # undefined
    THEN result.value.reason ELSE ""

\* verifyReceipt that records on the receipt that it was verified.
VerifyReceiptRecording(tenantId, receiptId) ==
  /\ \E result \in {verifyReceipt(tenantId, receiptId)} :
       /\ last' = Done("verifyReceipt", result.outcome, ReasonOf(result))
       /\ IF result.outcome = "ok" /\ result.value.receipt # Null
            THEN updateReceipt(tenantId, receiptId, [metadata |-> Metadata("note" :> "n")])
            ELSE UNCHANGED store
  /\ UNCHANGED <<generated, calls>>

VerifyReceipt(tenantId, receiptId) ==
  /\ \E result \in {verifyReceipt(tenantId, receiptId)} :
       last' = Done("verifyReceipt", result.outcome, ReasonOf(result))
  /\ UNCHANGED <<store, generated, calls>>

VerifyReceiptByCode(tenantId, receiptId, code) ==
  /\ \E result \in {verifyReceiptByCode(tenantId, receiptId, code)} :
       last' = Done("verifyReceiptByCode", result.outcome, ReasonOf(result))
  /\ UNCHANGED <<store, generated, calls>>

GetPublicReceiptData(tenantId, receiptId) ==
  /\ last' = Done("getPublicReceiptData",
                  getPublicReceiptData(tenantId, receiptId).outcome, "")
  /\ UNCHANGED <<store, generated, calls>>

ListReceipts(tenantId, limit, offset) ==
  /\ last' = Done("listReceipts", svcListReceipts(tenantId, limit, offset).outcome, "")
  /\ UNCHANGED <<store, generated, calls>>


\* voidReceipt with the write ahead of the status check.
VoidReceiptWriteFirst(input, time) ==
  LET outcome == voidReceiptOutcome(input)
  IN /\ IF outcome \in {"ok", "InvalidTransition"}
          THEN updateReceipt(input.tenantId, input.receiptId,
                 voidUpdates(getReceipt(input.tenantId, input.receiptId), input, time))
          ELSE UNCHANGED store
     /\ last' = Done("voidReceipt", outcome, "")
     /\ UNCHANGED <<generated, calls>>

VoidReceipt(input, time) ==
  LET outcome == voidReceiptOutcome(input)
  IN /\ IF outcome = "ok"
          THEN updateReceipt(input.tenantId, input.receiptId,
                 voidUpdates(getReceipt(input.tenantId, input.receiptId), input, time))
          ELSE UNCHANGED store
     /\ last' = Done("voidReceipt", outcome, "")
     /\ UNCHANGED <<generated, calls>>

RefundReceipt(input, time) ==
  LET outcome == refundReceiptOutcome(input)
  IN /\ IF outcome = "ok"
          THEN updateReceipt(input.tenantId, input.receiptId,
                 refundUpdates(getReceipt(input.tenantId, input.receiptId), input, time))
          ELSE UNCHANGED store
     /\ last' = Done("refundReceipt", outcome, "")
     /\ UNCHANGED <<generated, calls>>

\* The calls that change the store.
Next ==
  \/ \E input \in CreateInputs, receiptId \in GeneratedIds, time \in Times :
       GenerateReceipt(input, receiptId, time)
  \/ \E input \in VoidInputs, time \in Times : VoidReceipt(input, time)
  \/ \E input \in RefundInputs, time \in Times : RefundReceipt(input, time)

Spec == Init /\ [][Next]_vars

\* Arguments of the read calls: an invalid tenant id, a tenant, any receipt id;
\* the code of the receipt looked up and a wrong code.
ReadTenants == {"", "a"}
\* A code as a caller may type it: as issued, in lower case, in mixed case.
CaseVariants(code) ==
  {code, toLowerCase(code), toLowerCase(substring(code, 0, 4)) \o substring(code, 4, 9)}
CodesFor(tenantId, receiptId) ==
  {"0000-0000"} \cup
  (IF getReceipt(tenantId, receiptId) = Null THEN {}
   ELSE CaseVariants(getReceipt(tenantId, receiptId).verificationCode))

\* The whole service interface, as a caller with tenant id "a" (or with an invalid
\* tenant id) uses it, while receipts are generated for tenant "a:b" as well.
NextService ==
  \/ \E input \in CreateInputs, receiptId \in GeneratedIds, time \in Times :
       GenerateReceipt(input, receiptId, time)
  \/ \E input \in {i \in VoidInputs : i.tenantId \in ReadTenants}, time \in Times :
       VoidReceipt(input, time)
  \/ \E input \in {i \in RefundInputs : i.tenantId \in ReadTenants}, time \in Times :
       RefundReceipt(input, time)
  \/ \E tenantId \in ReadTenants, receiptId \in LookupIds : GetReceipt(tenantId, receiptId)
  \/ \E tenantId \in ReadTenants, transactionId \in TransactionIds :
       GetReceiptByTransaction(tenantId, transactionId)
  \/ \E tenantId \in ReadTenants, receiptId \in LookupIds :
       VerifyReceipt(tenantId, receiptId)
  \/ \E tenantId \in ReadTenants, receiptId \in LookupIds :
       \E code \in CodesFor(tenantId, receiptId) :
          VerifyReceiptByCode(tenantId, receiptId, code)
  \/ \E tenantId \in ReadTenants, receiptId \in LookupIds :
       GetPublicReceiptData(tenantId, receiptId)
  \/ \E tenantId \in ReadTenants, limit \in Limits, offset \in Offsets :
       ListReceipts(tenantId, limit, offset)

SpecService == Init /\ [][NextService]_vars

\* ------------------------------------------------------------- the storage, called directly
\* Receipts a caller may hand to createReceipt: any Receipt object (the hash and the
\* code are the ones of the storage tests).
StorageReceipts ==
  [receiptId : {"c", "b:c"}, tenantId : {"a", "a:b"}, transactionId : TransactionIds,
   status : {ISSUED}, issuedAt : {0}, issuedBy : {"u"}, lineItems : {<<Coffee>>},
   subtotal : {1}, tax : {0}, total : {1}, currency : {"NGN"}, paymentMethod : {"cash"},
   auditEventId : {undefined}, verificationCode : {"ABCD-1234"}, hash : {"abc123"},
   metadata : {NoMetadata}]

\* Partial<Receipt> values a caller may hand to updateReceipt.
StorageUpdates ==
  { [status |-> VOIDED, receiptId |-> "d", tenantId |-> "a", transactionId |-> "b:x",
     issuedAt |-> 1, issuedBy |-> "z", total |-> 2] }

\* createReceipt that writes the transaction index ahead of its checks.
StorageCreateIndexFirst(receipt) ==
  /\ createReceiptError(receipt) = "" => Cardinality(DOMAIN receipts) < MaxReceipts
  /\ IF createReceiptError(receipt) = ""
       THEN /\ createReceipt(receipt)
            /\ last' = Done("createReceipt", "ok", "")
       ELSE /\ transactionIndex' =
                 (getTransactionKey(receipt.tenantId, receipt.transactionId)
                    :> receipt.receiptId) @@ transactionIndex
            /\ UNCHANGED <<receipts, receiptKeys>>
            /\ last' = Done("createReceipt", "Conflict", createReceiptError(receipt))
  /\ UNCHANGED <<generated, calls>>

StorageCreate(receipt) ==
  /\ createReceiptError(receipt) = "" => Cardinality(DOMAIN receipts) < MaxReceipts
  /\ IF createReceiptError(receipt) = ""
       THEN /\ createReceipt(receipt)
            /\ last' = Done("createReceipt", "ok", "")
       ELSE /\ UNCHANGED store
            /\ last' = Done("createReceipt", "Conflict", createReceiptError(receipt))
  /\ UNCHANGED <<generated, calls>>

StorageUpdate(tenantId, receiptId, updates) ==
  /\ IF getKey(tenantId, receiptId) \in DOMAIN receipts
       THEN /\ updateReceipt(tenantId, receiptId, updates)
            /\ last' = Done("updateReceipt", "ok", "")
       ELSE /\ UNCHANGED store
            /\ last' = Done("updateReceipt", "NotFound", "Receipt not found: " \o receiptId)
  /\ UNCHANGED <<generated, calls>>

NextStorage ==
  \/ \E input \in PlainCreateInputs, receiptId \in GeneratedIds, time \in Times :
       GenerateReceipt(input, receiptId, time)
  \/ \E receipt \in StorageReceipts : StorageCreate(receipt)
  \/ \E tenantId \in {"a", "a:b"}, receiptId \in LookupIds, updates \in StorageUpdates :
       StorageUpdate(tenantId, receiptId, updates)
  \/ \E tenantId \in {"a", "a:b"}, receiptId \in LookupIds :
       GetPublicReceiptData(tenantId, receiptId)

SpecStorage == Init /\ [][NextStorage]_vars

\* ------------------------------------------------------------- stored receipts altered
\* Payloads of updateReceipt that alter a stored receipt: its total, a line item,
\* its hash.
TamperUpdates ==
  { [total |-> 2],
    [lineItems |-> <<[Coffee EXCEPT !.description = "Pastry"]>>],
    [hash |-> "abc123"] }

\* Codes presented for a stored receipt: the one derived from its stored hash,
\* the one in its verificationCode field, and a wrong one.
TamperCodes(tenantId, receiptId) ==
  {"0000-0000"} \cup
  (IF getReceipt(tenantId, receiptId) = Null THEN {}
   ELSE {generateVerificationCode(getReceipt(tenantId, receiptId).hash),
         getReceipt(tenantId, receiptId).verificationCode})

\* Receipts of one tenant are generated, altered in the storage, and verified
\* both ways.
NextTamper ==
  \/ \E input \in {i \in PlainCreateInputs : i.tenantId = "a"},
        receiptId \in GeneratedIds, time \in Times :
       GenerateReceipt(input, receiptId, time)
  \/ \E receiptId \in GeneratedIds, updates \in TamperUpdates :
       StorageUpdate("a", receiptId, updates)
  \/ \E receiptId \in GeneratedIds : VerifyReceipt("a", receiptId)
  \/ \E receiptId \in GeneratedIds :
       \E code \in TamperCodes("a", receiptId) :
          VerifyReceiptByCode("a", receiptId, code)

SpecTamper == Init /\ [][NextTamper]_vars

\* ------------------------------------------------------------- calls in flight
\* A call is a promise: its body runs up to the first await when it is invoked,
\* each later step runs when the awaited storage promise has resolved, and the
\* caller sees the outcome when the call's own promise settles.  The storage
\* methods hold no await, so each runs to its end within the step that calls it.
CallIds == 1..MaxCalls

Settling(op, input, receipt, outcome, message) ==
  [op |-> op, phase |-> "settling", input |-> input, receipt |-> receipt,
   outcome |-> outcome, message |-> message]

\* Calls are numbered in the order in which they are made.
Invocable(c) ==
  /\ calls[c].phase = "idle"
  /\ \A d \in CallIds : d < c => calls[d].phase # "idle"

\* generateReceipt has no await before `return this.storage.createReceipt(receipt)`.
InvokeGenerate(c, input, receiptId, time) ==
  /\ Invocable(c)
  /\ generateReceiptError(input, receiptId) = "" => Cardinality(DOMAIN receipts) < MaxReceipts
  /\ \E result \in {generateReceipt(input, receiptId, time)} :
     /\ IF result.outcome = "ok"
          THEN /\ createReceipt(result.value)
               /\ generated' = (getKey(result.value.tenantId, result.value.receiptId)
                                  :> result.value) @@ generated
          ELSE UNCHANGED <<store, generated>>
     /\ calls' = [calls EXCEPT ![c] =
                    Settling("generateReceipt", input, result.value, result.outcome,
                             result.message)]
     /\ UNCHANGED last

\* voidReceipt up to `await this.storage.getReceipt(...)`.
InvokeVoid(c, input) ==
  /\ Invocable(c)
  /\ calls' = [calls EXCEPT ![c] =
       IF ~VoidReceiptInputSchema(input)
         THEN Settling("voidReceipt", input, Null, "ValidationError", "")
         ELSE [op |-> "voidReceipt", phase |-> "awaitGet", input |-> input,
               receipt |-> getReceipt(input.tenantId, input.receiptId),
               outcome |-> "none", message |-> ""]]
  /\ UNCHANGED <<store, generated, last>>

InvokeRefund(c, input) ==
  /\ Invocable(c)
  /\ calls' = [calls EXCEPT ![c] =
       IF ~RefundReceiptInputSchema(input)
         THEN Settling("refundReceipt", input, Null, "ValidationError", "")
         ELSE [op |-> "refundReceipt", phase |-> "awaitGet", input |-> input,
               receipt |-> getReceipt(input.tenantId, input.receiptId),
               outcome |-> "none", message |-> ""]]
  /\ UNCHANGED <<store, generated, last>>

\* voidReceipt after the await: the checks on the receipt it read, then
\* `return this.storage.updateReceipt(...)`.
ResumeVoid(c, time) ==
  LET call == calls[c]
      check == statusChangeCheck(call.receipt)
  IN /\ call.phase = "awaitGet"
     /\ call.op = "voidReceipt"
     /\ IF check = "ok"
          THEN updateReceipt(call.input.tenantId, call.input.receiptId,
                             voidUpdates(call.receipt, call.input, time))
          ELSE UNCHANGED store
     /\ calls' = [calls EXCEPT ![c] =
                    Settling(call.op, call.input,
                             IF check = "ok"
                               THEN receipts'[getKey(call.input.tenantId,
                                                     call.input.receiptId)]
                               ELSE Null,
                             check, "")]
     /\ UNCHANGED <<generated, last>>

ResumeRefund(c, time) ==
  LET call == calls[c]
      check == statusChangeCheck(call.receipt)
  IN /\ call.phase = "awaitGet"
     /\ call.op = "refundReceipt"
     /\ IF check = "ok"
          THEN updateReceipt(call.input.tenantId, call.input.receiptId,
                             refundUpdates(call.receipt, call.input, time))
          ELSE UNCHANGED store
     /\ calls' = [calls EXCEPT ![c] =
                    Settling(call.op, call.input,
                             IF check = "ok"
                               THEN receipts'[getKey(call.input.tenantId,
                                                     call.input.receiptId)]
                               ELSE Null,
                             check, "")]
     /\ UNCHANGED <<generated, last>>

\* The call's promise settles: the caller has its outcome.
Settle(c) ==
  /\ calls[c].phase = "settling"
  /\ calls' = [calls EXCEPT ![c].phase = "done"]
  /\ last' = Done(calls[c].op, calls[c].outcome, calls[c].message)
  /\ UNCHANGED <<store, generated>>

\* Inputs of the calls in flight.
ConcCreateInputs ==
  {input \in PlainCreateInputs : input.tenantId = "a" /\ input.transactionId = "x"}
ConcVoidInputs == {input \in VoidInputs : input.tenantId = "a" /\ input.receiptId = "c"}
ConcRefundInputs == {input \in RefundInputs : input.tenantId = "a" /\ input.receiptId = "c"}

NextConc ==
  \/ \E c \in CallIds, input \in ConcCreateInputs, receiptId \in GeneratedIds,
        time \in Times : InvokeGenerate(c, input, receiptId, time)
  \/ \E c \in CallIds, input \in ConcVoidInputs : InvokeVoid(c, input)
  \/ \E c \in CallIds, input \in ConcRefundInputs : InvokeRefund(c, input)
  \/ \E c \in CallIds, time \in Times : ResumeVoid(c, time)
  \/ \E c \in CallIds, time \in Times : ResumeRefund(c, time)
  \/ \E c \in CallIds : Settle(c)

SpecConc == Init /\ [][NextConc]_vars

\* ------------------------------------------------------------- a storage that fails
\* The service holds a ReceiptStorage (config.storage): any implementation of the
\* interface, whose promises may reject.  Here the storage is the in-memory one
\* except that a call may reject with an error of its own and then leaves the
\* maps as they were.  Each call of the service keeps the storage calls it made,
\* in order, each with the message of the error it rejected with ("" when it
\* resolved).
StorageErrors == {"ETIMEDOUT", "ECONNRESET"}

InitFaulty ==
  /\ receipts = <<>>
  /\ receiptKeys = <<>>
  /\ transactionIndex = <<>>
  /\ generated = <<>>
  /\ calls = [c \in 1..MaxCalls |-> [storageCalls |-> <<>>] @@ NoCall]
  /\ last = Done("none", "none", "")

\* generateReceipt: validation, then `return this.storage.createReceipt(receipt)`.
GenerateOnFaulty(c, input, receiptId, time, error) ==
  /\ Invocable(c)
  /\ generateReceiptError(input, receiptId) = "" => Cardinality(DOMAIN receipts) < MaxReceipts
  /\ \E result \in {generateReceipt(input, receiptId, time)} :
     /\ IF result.outcome = "ok" /\ error = ""
          THEN /\ createReceipt(result.value)
               /\ generated' = (getKey(result.value.tenantId, result.value.receiptId)
                                  :> result.value) @@ generated
          ELSE UNCHANGED <<store, generated>>
     /\ calls' = [calls EXCEPT ![c] =
          IF result.outcome = "ValidationError"
            THEN [storageCalls |-> <<>>]
                   @@ Settling("generateReceipt", input, Null, result.outcome, result.message)
          ELSE IF error # ""
            THEN [storageCalls |-> <<[method |-> "createReceipt", error |-> error]>>]
                   @@ Settling("generateReceipt", input, Null, "StorageError", error)
          ELSE [storageCalls |-> <<[method |-> "createReceipt", error |-> result.message]>>]
                 @@ Settling("generateReceipt", input, result.value, result.outcome,
                             result.message)]
     /\ UNCHANGED last

\* voidReceipt up to `await this.storage.getReceipt(...)`.
InvokeVoidOnFaulty(c, input, error) ==
  /\ Invocable(c)
  /\ calls' = [calls EXCEPT ![c] =
       IF ~VoidReceiptInputSchema(input)
         THEN [storageCalls |-> <<>>]
                @@ Settling("voidReceipt", input, Null, "ValidationError", "")
         ELSE [op |-> "voidReceipt", phase |-> "awaitGet", input |-> input,
               receipt |-> IF error = "" THEN getReceipt(input.tenantId, input.receiptId)
                           ELSE Null,
               outcome |-> "none", message |-> "",
               storageCalls |-> <<[method |-> "getReceipt", error |-> error]>>]]
  /\ UNCHANGED <<store, generated, last>>

InvokeRefundOnFaulty(c, input, error) ==
  /\ Invocable(c)
  /\ calls' = [calls EXCEPT ![c] =
       IF ~RefundReceiptInputSchema(input)
         THEN [storageCalls |-> <<>>]
                @@ Settling("refundReceipt", input, Null, "ValidationError", "")
         ELSE [op |-> "refundReceipt", phase |-> "awaitGet", input |-> input,
               receipt |-> IF error = "" THEN getReceipt(input.tenantId, input.receiptId)
                           ELSE Null,
               outcome |-> "none", message |-> "",
               storageCalls |-> <<[method |-> "getReceipt", error |-> error]>>]]
  /\ UNCHANGED <<store, generated, last>>

\* voidReceipt that calls updateReceipt a second time when the first call rejected.
ResumeVoidOnFaultyRetrying(c, time, error) ==
  LET call == calls[c]
      getError == call.storageCalls[1].error
      check == statusChangeCheck(call.receipt)
      update == [method |-> "updateReceipt", error |-> error]
  IN /\ call.phase = "awaitGet"
     /\ call.op = "voidReceipt"
     /\ IF getError = "" /\ check = "ok"
          THEN updateReceipt(call.input.tenantId, call.input.receiptId,
                             voidUpdates(call.receipt, call.input, time))
          ELSE UNCHANGED store
     /\ calls' = [calls EXCEPT ![c] =
          IF getError # ""
            THEN [storageCalls |-> call.storageCalls]
                   @@ Settling(call.op, call.input, Null, "StorageError", getError)
          ELSE IF check # "ok"
            THEN [storageCalls |-> call.storageCalls]
                   @@ Settling(call.op, call.input, Null, check, "")
          ELSE [storageCalls |->
                  IF error # ""
                    THEN call.storageCalls
                           \o <<update, [method |-> "updateReceipt", error |-> ""]>>
                    ELSE Append(call.storageCalls, update)]
                 @@ Settling(call.op, call.input,
                             receipts'[getKey(call.input.tenantId, call.input.receiptId)],
                             "ok", "")]
     /\ UNCHANGED <<generated, last>>

\* voidReceipt after the await: the await throws what getReceipt rejected with;
\* otherwise the checks on the receipt, then `return this.storage.updateReceipt(...)`.
ResumeVoidOnFaulty(c, time, error) ==
  LET call == calls[c]
      getError == call.storageCalls[1].error
      check == statusChangeCheck(call.receipt)
      update == [method |-> "updateReceipt", error |-> error]
  IN /\ call.phase = "awaitGet"
     /\ call.op = "voidReceipt"
     /\ IF getError = "" /\ check = "ok" /\ error = ""
          THEN updateReceipt(call.input.tenantId, call.input.receiptId,
                             voidUpdates(call.receipt, call.input, time))
          ELSE UNCHANGED store
     /\ calls' = [calls EXCEPT ![c] =
          IF getError # ""
            THEN [storageCalls |-> call.storageCalls]
                   @@ Settling(call.op, call.input, Null, "StorageError", getError)
          ELSE IF check # "ok"
            THEN [storageCalls |-> call.storageCalls]
                   @@ Settling(call.op, call.input, Null, check, "")
          ELSE IF error # ""
            THEN [storageCalls |-> Append(call.storageCalls, update)]
                   @@ Settling(call.op, call.input, Null, "StorageError", error)
          ELSE [storageCalls |-> Append(call.storageCalls, update)]
                 @@ Settling(call.op, call.input,
                             receipts'[getKey(call.input.tenantId, call.input.receiptId)],
                             "ok", "")]
     /\ UNCHANGED <<generated, last>>

ResumeRefundOnFaulty(c, time, error) ==
  LET call == calls[c]
      getError == call.storageCalls[1].error
      check == statusChangeCheck(call.receipt)
      update == [method |-> "updateReceipt", error |-> error]
  IN /\ call.phase = "awaitGet"
     /\ call.op = "refundReceipt"
     /\ IF getError = "" /\ check = "ok" /\ error = ""
          THEN updateReceipt(call.input.tenantId, call.input.receiptId,
                             refundUpdates(call.receipt, call.input, time))
          ELSE UNCHANGED store
     /\ calls' = [calls EXCEPT ![c] =
          IF getError # ""
            THEN [storageCalls |-> call.storageCalls]
                   @@ Settling(call.op, call.input, Null, "StorageError", getError)
          ELSE IF check # "ok"
            THEN [storageCalls |-> call.storageCalls]
                   @@ Settling(call.op, call.input, Null, check, "")
          ELSE IF error # ""
            THEN [storageCalls |-> Append(call.storageCalls, update)]
                   @@ Settling(call.op, call.input, Null, "StorageError", error)
          ELSE [storageCalls |-> Append(call.storageCalls, update)]
                 @@ Settling(call.op, call.input,
                             receipts'[getKey(call.input.tenantId, call.input.receiptId)],
                             "ok", "")]
     /\ UNCHANGED <<generated, last>>

NextFaulty ==
  \/ \E c \in CallIds, input \in ConcCreateInputs, receiptId \in GeneratedIds,
        time \in Times, error \in StorageErrors \cup {""} :
       GenerateOnFaulty(c, input, receiptId, time, error)
  \/ \E c \in CallIds, input \in ConcVoidInputs, error \in StorageErrors \cup {""} :
       InvokeVoidOnFaulty(c, input, error)
  \/ \E c \in CallIds, input \in ConcRefundInputs, error \in StorageErrors \cup {""} :
       InvokeRefundOnFaulty(c, input, error)
  \/ \E c \in CallIds, time \in Times, error \in StorageErrors \cup {""} :
       ResumeVoidOnFaulty(c, time, error)
  \/ \E c \in CallIds, time \in Times, error \in StorageErrors \cup {""} :
       ResumeRefundOnFaulty(c, time, error)
  \/ \E c \in CallIds : Settle(c)

SpecFaulty == InitFaulty /\ [][NextFaulty]_vars

\* ------------------------------------------------------------- listing
\* Receipts are generated at different instants, voided or refunded, and listed.
NextList ==
  \/ \E input \in PlainCreateInputs, receiptId \in GeneratedIds, time \in {0, 1} :
       GenerateReceipt(input, receiptId, time)
  \/ \E input \in ConcVoidInputs, time \in Times : VoidReceipt(input, time)
  \/ \E input \in ConcRefundInputs, time \in Times : RefundReceipt(input, time)
  \/ \E tenantId \in TenantIds, limit \in Limits, offset \in Offsets :
       ListReceipts(tenantId, limit, offset)

SpecList == Init /\ [][NextList]_vars

\* ------------------------------------------------------------- caller metadata
\* metadata: z.record(z.unknown()).optional() accepts any keys; among the inputs
\* are some whose metadata holds the keys voidReceipt and refundReceipt write.
MetadataCreateInputs ==
  { [input EXCEPT !.metadata = metadata] :
      input \in {i \in PlainCreateInputs : i.tenantId = "a"},
      metadata \in { NoMetadata,
                     Metadata("note" :> "n"),
                     Metadata([voidedBy |-> "z", voidReason |-> "r"]),
                     Metadata([refundedBy |-> "z", refundReason |-> "r"]) } }

NextMetadata ==
  \/ \E input \in MetadataCreateInputs, receiptId \in GeneratedIds, time \in Times :
       GenerateReceipt(input, receiptId, time)
  \/ \E input \in VoidInputs, time \in Times : VoidReceipt(input, time)
  \/ \E input \in RefundInputs, time \in Times : RefundReceipt(input, time)

SpecMetadata == Init /\ [][NextMetadata]_vars

\* ------------------------------------------------------------- malformed inputs
\* Inputs that break one rule of the schema each: no tenant id, no line item, a
\* quantity of 0, a negative unit price or total price, a currency of two
\* letters, no payment method, no issuer.
BadCreateInputs ==
  { [SomeCreateInput EXCEPT !.tenantId = ""],
    [SomeCreateInput EXCEPT !.transactionId = ""],
    [SomeCreateInput EXCEPT !.issuedBy = ""],
    [SomeCreateInput EXCEPT !.lineItems = <<>>],
    [SomeCreateInput EXCEPT !.lineItems = <<[Coffee EXCEPT !.quantity = 0]>>],
    [SomeCreateInput EXCEPT !.lineItems = <<[Coffee EXCEPT !.unitPrice = -1]>>],
    [SomeCreateInput EXCEPT !.lineItems = <<[Coffee EXCEPT !.totalPrice = -1]>>],
    [SomeCreateInput EXCEPT !.lineItems = <<[Coffee EXCEPT !.description = ""]>>],
    [SomeCreateInput EXCEPT !.subtotal = -1, !.tax = 2],
    [SomeCreateInput EXCEPT !.currency = "NG"],
    [SomeCreateInput EXCEPT !.paymentMethod = ""] }

\* A void or refund input for tenant "a" with no tenant id, no receipt id, no
\* actor or no reason.
BadVoidInputs ==
  UNION { { [input EXCEPT !.tenantId = ""], [input EXCEPT !.receiptId = ""],
            [input EXCEPT !.voidedBy = ""], [input EXCEPT !.reason = ""] } :
          input \in ConcVoidInputs }

BadRefundInputs ==
  UNION { { [input EXCEPT !.tenantId = ""], [input EXCEPT !.receiptId = ""],
            [input EXCEPT !.refundedBy = ""], [input EXCEPT !.reason = ""] } :
          input \in ConcRefundInputs }

\* The mutating calls of tenant "a", with well-formed and malformed inputs.
NextValidation ==
  \/ \E input \in {i \in PlainCreateInputs : i.tenantId = "a"} \cup BadCreateInputs,
        receiptId \in GeneratedIds, time \in Times :
       GenerateReceipt(input, receiptId, time)
  \/ \E input \in ConcVoidInputs \cup BadVoidInputs, time \in Times :
       VoidReceipt(input, time)
  \/ \E input \in ConcRefundInputs \cup BadRefundInputs, time \in Times :
       RefundReceipt(input, time)

SpecValidation == Init /\ [][NextValidation]_vars

\* ============================================================= properties
\* Vocabulary of the properties below.
Stored == {receipts[k] : k \in DOMAIN receipts}
ServiceTenants == {t \in TenantIds : TenantIdSchema(t)}
OwnedBy(tenantId, receiptId) ==
  {r \in Stored : r.tenantId = tenantId /\ r.receiptId = receiptId}
OfTransaction(tenantId, transactionId) ==
  {r \in Stored : r.tenantId = tenantId /\ r.transactionId = transactionId}
NotFoundResult == [valid |-> FALSE, receipt |-> Null, reason |-> "Receipt not found"]

\* C1 (checked under Spec): lifecycle invariance.  For every receipt generate
\* returned, whatever void and refund calls followed, the stored hash and
\* verification code are the ones generate returned, verifyReceipt on it returns
\* valid = true, and the hash recomputed from the stored receipt is the original.
C1_LifecycleInvariance ==
  \A k \in DOMAIN generated :
    LET original == generated[k]
        stored == receipts[k]
        result == verifyReceipt(original.tenantId, original.receiptId)
    IN /\ stored.hash = original.hash
       /\ stored.verificationCode = original.verificationCode
       /\ result.outcome = "ok"
       /\ result.value.valid
       /\ computeReceiptHash(stored) = original.hash

\* C2 (checked under Spec): over generate, void and refund calls made one after
\* another, a receipt enters the store Issued, stays stored, and its status
\* changes only Issued -> Voided in a successful void or Issued -> Refunded in a
\* successful refund; a Voided or Refunded receipt keeps its status.
C2_StatusTransitions ==
  [][ /\ \A k \in DOMAIN receipts' \ DOMAIN receipts : receipts'[k].status = ISSUED
      /\ \A k \in DOMAIN receipts :
           /\ k \in DOMAIN receipts'
           /\ \/ receipts'[k].status = receipts[k].status
              \/ /\ receipts[k].status = ISSUED
                 /\ receipts'[k].status = VOIDED
                 /\ last' = Done("voidReceipt", "ok", "")
              \/ /\ receipts[k].status = ISSUED
                 /\ receipts'[k].status = REFUNDED
                 /\ last' = Done("refundReceipt", "ok", "")
    ]_vars

\* A Voided and a Refunded receipt are stored and a later call on one of them
\* was refused.
C2_Witness ==
  /\ \E k \in DOMAIN receipts : receipts[k].status = VOIDED
  /\ \E k \in DOMAIN receipts : receipts[k].status = REFUNDED
  /\ last.outcome = "InvalidTransition"

\* C3 (checked under Spec): the transition guard.  A void or a refund of a stored
\* receipt whose status is not Issued ends with InvalidTransition, and a call
\* that ends with InvalidTransition leaves every stored receipt (status and
\* metadata included) as it was.
C3_TransitionGuard ==
  [][ /\ \A input \in VoidInputs :
           LET receipt == getReceipt(input.tenantId, input.receiptId)
           IN (VoidReceiptInputSchema(input) /\ receipt # Null /\ receipt.status # ISSUED)
                => voidReceiptOutcome(input) = "InvalidTransition"
      /\ \A input \in RefundInputs :
           LET receipt == getReceipt(input.tenantId, input.receiptId)
           IN (RefundReceiptInputSchema(input) /\ receipt # Null /\ receipt.status # ISSUED)
                => refundReceiptOutcome(input) = "InvalidTransition"
      /\ last'.outcome = "InvalidTransition" => receipts' = receipts
    ]_vars

\* A refund was refused with InvalidTransition while a Voided receipt is stored.
C3_Witness ==
  /\ last = Done("refundReceipt", "InvalidTransition", "")
  /\ \E k \in DOMAIN receipts :
       receipts[k].status = VOIDED /\ receipts[k].metadata.defined

\* C4 (checked under Spec): tenant isolation of reads.  Whatever tenant id B and
\* receipt id or transaction id a caller passes (ids holding ':' included), the
\* receipt getReceipt, getReceiptByTransaction, getPublicReceiptData or
\* listReceipts answers with is one of tenant B, and verifyReceipt and
\* verifyReceiptByCode are valid only for a receipt of tenant B.
C4_TenantIsolationOfReads ==
  \A B \in ServiceTenants :
    /\ \A r \in LookupIds :
         /\ svcGetReceipt(B, r).value # Null => svcGetReceipt(B, r).value.tenantId = B
         /\ getPublicReceiptData(B, r).value # Null => OwnedBy(B, r) # {}
         /\ verifyReceipt(B, r).value.valid => verifyReceipt(B, r).value.receipt.tenantId = B
         /\ \A code \in CodesToTry :
              verifyReceiptByCode(B, r, code).value.valid
                => verifyReceiptByCode(B, r, code).value.receipt.tenantId = B
    /\ \A x \in TransactionIds :
         svcGetReceiptByTransaction(B, x).value # Null
           => svcGetReceiptByTransaction(B, x).value.tenantId = B
    /\ \A limit \in Limits, offset \in Offsets :
         \A i \in DOMAIN svcListReceipts(B, limit, offset).value :
           svcListReceipts(B, limit, offset).value[i].tenantId = B

\* C5 (checked under Spec): a lookup by tenant B depends on the receipts of
\* tenant B alone.  When B holds no receipt with the id, getReceipt and
\* getPublicReceiptData answer absent and the two verifications answer "Receipt
\* not found", as in a store with no receipt at all; when B holds one, that
\* receipt is the one the answers are about.
C5_CrossTenantIsNotFound ==
  \A B \in ServiceTenants, r \in LookupIds :
    IF OwnedBy(B, r) = {}
      THEN /\ svcGetReceipt(B, r) = Returned(Null)
           /\ getPublicReceiptData(B, r) = Returned(Null)
           /\ verifyReceipt(B, r) = Returned(NotFoundResult)
           /\ \A code \in CodesToTry :
                verifyReceiptByCode(B, r, code) = Returned(NotFoundResult)
      ELSE /\ svcGetReceipt(B, r).value \in OwnedBy(B, r)
           /\ verifyReceipt(B, r).value.receipt \in OwnedBy(B, r)
           /\ \A code \in CodesToTry :
                verifyReceiptByCode(B, r, code).value.receipt \in OwnedBy(B, r)
           /\ getPublicReceiptData(B, r).value.receiptId = r

\* C6 (checked under Spec): void and refund are scoped to the tenant.  Called
\* with a tenant id and a receipt id for which that tenant holds no receipt,
\* they end with NotFound (and so write nothing).
C6_MutationsAreTenantScoped ==
  /\ \A input \in VoidInputs :
       (VoidReceiptInputSchema(input) /\ OwnedBy(input.tenantId, input.receiptId) = {})
         => voidReceiptOutcome(input) = "NotFound"
  /\ \A input \in RefundInputs :
       (RefundReceiptInputSchema(input) /\ OwnedBy(input.tenantId, input.receiptId) = {})
         => refundReceiptOutcome(input) = "NotFound"

\* C7 (checked under SpecStorage): at most one stored receipt for each tenant
\* id and transaction id; a generateReceipt or a createReceipt for a pair that
\* has a receipt is refused with a Conflict; and getReceiptByTransaction for a
\* pair that has a receipt answers with that same receipt after every step.
C7_OneReceiptPerTransaction ==
  /\ [](/\ \A r1, r2 \in Stored :
             (r1.tenantId = r2.tenantId /\ r1.transactionId = r2.transactionId)
               => r1 = r2
        /\ \A input \in ValidCreateInputs, receiptId \in GeneratedIds, time \in Times :
             OfTransaction(input.tenantId, input.transactionId) # {}
               => generateReceipt(input, receiptId, time).outcome = "Conflict"
        /\ \A receipt \in StorageReceipts :
             OfTransaction(receipt.tenantId, receipt.transactionId) # {}
               => createReceiptError(receipt) # "")
  /\ [][ \A r \in Stored :
           LET found == getReceiptByTransaction(r.tenantId, r.transactionId)
               after == getReceiptByTransaction(r.tenantId, r.transactionId)'
           IN /\ found = r
              /\ after # Null
              /\ after.receiptId = r.receiptId
              /\ after.tenantId = r.tenantId
              /\ after.transactionId = r.transactionId
       ]_vars

\* A second receipt for a stored pair of tenant and transaction was refused.
C7_Witness ==
  /\ last.op \in {"generateReceipt", "createReceipt"}
  /\ last.outcome = "Conflict"
  /\ last.message = "Receipt already exists for transaction"
  /\ Stored # {}

\* C8 as stated (checked under SpecStorage): no two stored receipts share a
\* receipt id, whatever their tenants.
C8_ReceiptIdGloballyUnique ==
  \A k1, k2 \in DOMAIN receipts :
    receipts[k1].receiptId = receipts[k2].receiptId => k1 = k2

\* C8 (checked under SpecStorage): the receipt id is unique within a tenant.  No
\* two stored receipts share both tenant id and receipt id, a stored receipt
\* sits under the key of its own tenant id and receipt id, and a createReceipt
\* with the tenant id and receipt id of a stored receipt is refused.
C8_ReceiptIdUniquePerTenant ==
  /\ \A k1, k2 \in DOMAIN receipts :
       (receipts[k1].tenantId = receipts[k2].tenantId
          /\ receipts[k1].receiptId = receipts[k2].receiptId) => k1 = k2
  /\ \A k \in DOMAIN receipts : k = getKey(receipts[k].tenantId, receipts[k].receiptId)
  /\ \A receipt \in StorageReceipts :
       OwnedBy(receipt.tenantId, receipt.receiptId) # {}
         => createReceiptError(receipt) = "Receipt already exists"

\* Two tenants each hold a receipt with the same receipt id, and a createReceipt
\* of a stored tenant id and receipt id was refused.
C8_Witness ==
  /\ \E r1, r2 \in Stored : r1.receiptId = r2.receiptId /\ r1.tenantId # r2.tenantId
  /\ last = Done("createReceipt", "Conflict", "Receipt already exists")

\* C9 (checked under Spec): uniqueness is scoped to the tenant.  A
\* generateReceipt with a fresh receipt id is refused with a Conflict only if
\* the tenant of the input holds a receipt for the transaction id of the input.
C9_UniquenessScopedPerTenant ==
  \A input \in ValidCreateInputs, receiptId \in GeneratedIds, time \in Times :
    (/\ \A r \in Stored : r.receiptId # receiptId
     /\ generateReceipt(input, receiptId, time).outcome = "Conflict")
      => OfTransaction(input.tenantId, input.transactionId) # {}

\* C10 (checked under SpecConc): of the generateReceipt calls in flight for one
\* tenant id and transaction id, at most one returns a receipt and every other
\* one is refused with a Conflict; one receipt is stored for the pair once a
\* call has returned one, and none before.
C10_CreationIsAtomic ==
  \A c1, c2 \in CallIds :
    (/\ c1 # c2
     /\ calls[c1].op = "generateReceipt"
     /\ calls[c2].op = "generateReceipt"
     /\ calls[c1].input.tenantId = calls[c2].input.tenantId
     /\ calls[c1].input.transactionId = calls[c2].input.transactionId)
      => LET same == {c \in CallIds :
                        /\ calls[c].op = "generateReceipt"
                        /\ calls[c].input.tenantId = calls[c1].input.tenantId
                        /\ calls[c].input.transactionId = calls[c1].input.transactionId}
             succeeded == {c \in same : calls[c].outcome = "ok"}
         IN /\ Cardinality(succeeded) <= 1
            /\ \A c \in same \ succeeded : calls[c].outcome = "Conflict"
            /\ Cardinality(OfTransaction(calls[c1].input.tenantId,
                                         calls[c1].input.transactionId))
                 = Cardinality(succeeded)
            /\ (\E c \in same :
                  calls[c].message = "Receipt already exists for transaction")
                 => Cardinality(succeeded) = 1

\* Two generateReceipt calls for one pair are in flight, neither settled yet,
\* the second of them refused for the transaction.
C10_Witness ==
  \E c1, c2 \in CallIds :
    /\ c1 # c2
    /\ calls[c1].op = "generateReceipt" /\ calls[c1].phase = "settling"
    /\ calls[c2].op = "generateReceipt" /\ calls[c2].phase = "settling"
    /\ calls[c1].input.transactionId = calls[c2].input.transactionId
    /\ calls[c1].outcome = "ok"
    /\ calls[c2].outcome = "Conflict"
    /\ calls[c2].message = "Receipt already exists for transaction"

\* C11 (checked under SpecConc): a status change is an atomic check-then-write.
\* Of two voidReceipt / refundReceipt calls in flight on the same tenant id and
\* receipt id, at most one returns the changed receipt, and the other one, once
\* it is past its checks, is refused with InvalidTransition.
C11_StatusChangeIsAtomic ==
  \A c1, c2 \in CallIds :
    (/\ c1 # c2
     /\ calls[c1].op \in {"voidReceipt", "refundReceipt"}
     /\ calls[c2].op \in {"voidReceipt", "refundReceipt"}
     /\ calls[c1].input.tenantId = calls[c2].input.tenantId
     /\ calls[c1].input.receiptId = calls[c2].input.receiptId
     /\ calls[c1].outcome = "ok")
      => calls[c2].outcome \in {"none", "InvalidTransition"}

\* The fields of a receipt that the contract calls immutable (all but status
\* and metadata).
ImmutableFields ==
  {"receiptId", "tenantId", "transactionId", "issuedAt", "issuedBy", "lineItems",
   "subtotal", "tax", "total", "currency", "paymentMethod", "auditEventId", "hash",
   "verificationCode"}

\* Update payloads that name immutable fields.
ImmutablePayloads ==
  StorageUpdates \cup
  { [total |-> 2], [hash |-> "abc123"], [verificationCode |-> "ABCD-1234"],
    [lineItems |-> <<[Coffee EXCEPT !.description = "Pastry"]>>],
    [currency |-> "USD", paymentMethod |-> "card", auditEventId |-> "ev"] }

\* C12 (checked under SpecStorage): updateReceipt preserves every immutable
\* field whatever the payload names.  For every stored receipt and every
\* payload, the receipt updateReceipt stores and returns agrees with the stored
\* one on every immutable field.
C12_UpdatePreservesImmutableFields ==
  \A r \in Stored, updates \in ImmutablePayloads, field \in ImmutableFields :
    updatedReceipt(r, updates)[field] = r[field]

\* C13 (checked under SpecService): through the service alone, only status and
\* metadata of a stored receipt change.  Every stored receipt was returned by
\* generateReceipt, and it agrees with the receipt generateReceipt returned on
\* every immutable field, after any calls of the service.
C13_OnlyStatusAndMetadataChange ==
  /\ DOMAIN receipts = DOMAIN generated
  /\ \A k \in DOMAIN generated, field \in ImmutableFields :
       receipts[k][field] = generated[k][field]

\* A receipt was voided (status and metadata differ from the ones generateReceipt
\* returned) and it was read afterwards.
C13_Witness ==
  /\ \E k \in DOMAIN generated :
       /\ receipts[k].status = VOIDED
       /\ receipts[k].metadata # generated[k].metadata
  /\ last.op = "verifyReceipt"
  /\ last.outcome = "ok"

\* C14 (checked under Spec): the hash is a function of the immutable proof
\* payload only.  For every stored receipt, a receipt that agrees with it on
\* receiptId, tenantId, transactionId, issuedAt, issuedBy, lineItems, subtotal,
\* tax, total, currency, paymentMethod and auditEventId has the same
\* computeReceiptHash, whatever its status, metadata and verificationCode are.
C14_HashOfPayloadOnly ==
  \A r \in Stored, status \in {ISSUED, VOIDED, REFUNDED},
     metadata \in {NoMetadata, Metadata("note" :> "n")},
     verificationCode \in {"", "ABCD-1234"} :
       computeReceiptHash([r EXCEPT !.status = status, !.metadata = metadata,
                                    !.verificationCode = verificationCode])
         = computeReceiptHash(r)

\* The receipts that differ from r in the value of one immutable field (one field
\* of one line item included) and keep r's stored hash.
Tampered(r) ==
  { [r EXCEPT !.receiptId = IF @ = "c" THEN "d" ELSE "c"],
    [r EXCEPT !.tenantId = IF @ = "a" THEN "a:b" ELSE "a"],
    [r EXCEPT !.transactionId = IF @ = "x" THEN "b:x" ELSE "x"],
    [r EXCEPT !.issuedAt = @ + 1],
    [r EXCEPT !.issuedBy = "z"],
    [r EXCEPT !.subtotal = @ + 1],
    [r EXCEPT !.tax = @ + 1],
    [r EXCEPT !.total = @ + 1],
    [r EXCEPT !.currency = "USD"],
    [r EXCEPT !.paymentMethod = "card"],
    [r EXCEPT !.auditEventId = "ev"] }
  \cup { [r EXCEPT !.lineItems[i].description = "Pastry"] : i \in 1..Len(r.lineItems) }
  \cup { [r EXCEPT !.lineItems[i].quantity = @ + 1] : i \in 1..Len(r.lineItems) }
  \cup { [r EXCEPT !.lineItems[i].unitPrice = @ + 1] : i \in 1..Len(r.lineItems) }
  \cup { [r EXCEPT !.lineItems[i].totalPrice = @ + 1] : i \in 1..Len(r.lineItems) }

\* C15 (checked under Spec): tamper sensitivity.  For every stored receipt on
\* which verifyReceiptHash is true, changing the value of any one immutable field,
\* or of any field of any line item, while keeping the stored hash makes
\* verifyReceiptHash false.
C15_TamperSensitivity ==
  \A r \in Stored :
    verifyReceiptHash(r) => \A t \in Tampered(r) : ~verifyReceiptHash(t)

\* The inputs of generateReceipt that are valid but for their totals.
MismatchedTotals ==
  { input \in CreateInputs :
      /\ input.subtotal + input.tax # input.total
      /\ CreateReceiptInputSchema([input EXCEPT !.total = input.subtotal + input.tax]) }

\* C16 (checked under Spec; amounts are whole numbers, on which the sum of the
\* code is the exact sum): generateReceipt of an otherwise valid input with
\* subtotal + tax # total fails with the validation error, a generateReceipt
\* that fails validation leaves the store as it was, and every receipt
\* generateReceipt created has subtotal + tax = total in every reachable state.
C16_TotalsMustAgree ==
  /\ [](/\ \A input \in MismatchedTotals, receiptId \in GeneratedIds, time \in Times :
             /\ generateReceipt(input, receiptId, time).outcome = "ValidationError"
             /\ generateReceiptError(input, receiptId) = "Validation failed"
        /\ \A k \in DOMAIN generated :
             /\ generated[k].subtotal + generated[k].tax = generated[k].total
             /\ k \in DOMAIN receipts
             /\ receipts[k].subtotal + receipts[k].tax = receipts[k].total)
  /\ [][(last'.op = "generateReceipt" /\ last'.outcome = "ValidationError")
          => /\ UNCHANGED <<store, generated>>
             /\ last'.message = "Validation failed"]_vars

\* generateReceipt has just failed validation while a receipt is stored, in a
\* state where an input with mismatched totals is among the inputs it rejects.
C16_Witness ==
  /\ last = Done("generateReceipt", "ValidationError", "Validation failed")
  /\ receipts # <<>>
  /\ MismatchedTotals # {}
  /\ \A input \in MismatchedTotals :
       generateReceipt(input, "d", 0).outcome = "ValidationError"

\* C17 (checked under Spec): a successful generateReceipt returns a receipt with
\* status issued, the tenantId and transactionId of the input and a hash equal to
\* computeReceiptHash of the receipt itself; and the receipt is persisted: right
\* after the call getReceipt(tenantId, receiptId) and
\* getReceiptByTransaction(tenantId, transactionId) both return it.
C17_GenerateReturnsAndPersists ==
  /\ [](\A input \in CreateInputs, receiptId \in GeneratedIds, time \in Times :
          \A result \in {generateReceipt(input, receiptId, time)} :
            result.outcome = "ok" =>
              /\ result.value.status = ISSUED
              /\ result.value.receiptId = receiptId
              /\ result.value.tenantId = input.tenantId
              /\ result.value.transactionId = input.transactionId
              /\ result.value.hash = computeReceiptHash(result.value)
              /\ verifyReceiptHash(result.value))
  /\ [][(last'.op = "generateReceipt" /\ last'.outcome = "ok") =>
          \E k \in DOMAIN generated' \ DOMAIN generated :
            \E r \in {generated'[k]} :
              /\ DOMAIN generated' = DOMAIN generated \cup {k}
              /\ k = getKey(r.tenantId, r.receiptId)
              /\ r.status = ISSUED
              /\ r.hash = computeReceiptHash(r)
              /\ svcGetReceipt(r.tenantId, r.receiptId)' = Returned(r)
              /\ svcGetReceiptByTransaction(r.tenantId, r.transactionId)'
                   = Returned(r)]_vars

\* generateReceipt has just succeeded for the second time: two receipts are
\* stored, and each is returned by both lookups.
C17_Witness ==
  /\ last = Done("generateReceipt", "ok", "")
  /\ Cardinality(DOMAIN receipts) = 2
  /\ \A r \in Stored :
       /\ r.status = ISSUED
       /\ svcGetReceipt(r.tenantId, r.receiptId) = Returned(r)
       /\ svcGetReceiptByTransaction(r.tenantId, r.transactionId) = Returned(r)

\* Hex digests of at least 8 characters: the one of the unit test of
\* generateVerificationCode, some others, and the hashes of the stored receipts.
SampleDigests ==
  {"abc123def456", "0123456789abcdef", "ffffffff", "deadbeefcafe0000", "00a0b0c0d"}
    \cup {r.hash : r \in Stored}

UpperHexDigits == "0123456789ABCDEF"

\* code is the first 8 hex characters of hash in upper case, as XXXX-XXXX: it
\* matches ^[A-F0-9]{4}-[A-F0-9]{4}$ and its i-th hex character is the upper-case
\* form of the i-th character of hash.
IsCodeOf(code, hash) ==
  /\ Len(code) = 9
  /\ CharAt(code, 5) = "-"
  /\ \A i \in 1..8 :
       \E n \in 1..16 :
         /\ CharAt(hash, i) = CharAt(HexDigits, n)
         /\ CharAt(code, IF i <= 4 THEN i ELSE i + 1) = CharAt(UpperHexDigits, n)

\* C18 (checked under Spec): the verification code is a function of the digest
\* only.  generateVerificationCode(hash) is the first 8 hex characters of hash,
\* upper-cased, written as 4 characters, a hyphen and 4 characters, for every hex
\* digest of at least 8 characters; and every receipt generateReceipt created has
\* verificationCode = generateVerificationCode(hash) in every reachable state.
C18_CodeIsDerivedFromHash ==
  /\ \A hash \in SampleDigests : IsCodeOf(generateVerificationCode(hash), hash)
  /\ generateVerificationCode("abc123def456") = "ABC1-23DE"
  /\ \A k \in DOMAIN generated :
       /\ k \in DOMAIN receipts
       /\ receipts[k].verificationCode = generateVerificationCode(receipts[k].hash)
       /\ IsCodeOf(receipts[k].verificationCode, receipts[k].hash)
       /\ generated[k].verificationCode = generateVerificationCode(generated[k].hash)

\* A generated receipt was voided afterwards, and the digest it carries has a
\* letter among its first four characters, which its code writes in upper case.
C18_Witness ==
  \E k \in DOMAIN generated :
    /\ receipts[k].status = VOIDED
    /\ receipts[k].verificationCode = generateVerificationCode(receipts[k].hash)
    /\ substring(receipts[k].verificationCode, 0, 4) # substring(receipts[k].hash, 0, 4)

\* Two strings are equal but for the case of their letters.
EqualIgnoringCase(s, t) ==
  /\ Len(s) = Len(t)
  /\ \A i \in 1..Len(s) :
       \E a \in {CharCode[CharAt(s, i)]}, b \in {CharCode[CharAt(t, i)]} :
         \/ a = b
         \/ a <= 26 /\ b = a + 26
         \/ b <= 26 /\ a = b + 26

\* Codes that differ from code otherwise than by letter case: another code, the
\* code with its first character replaced, without its hyphen, cut short.
WrongCodes(code) ==
  { "0000-0000",
    (IF CharAt(code, 1) = "0" THEN "1" ELSE "0") \o substring(code, 1, 9),
    substring(code, 0, 4) \o substring(code, 5, 9),
    substring(code, 0, 8) }

\* C19 (checked under SpecService): verifyReceiptByCode on an existing receipt
\* returns valid = true exactly when the supplied code equals, but for letter
\* case, the code derived from the stored hash.  The receipt's own
\* verificationCode is accepted in upper, lower and mixed case; a code that
\* differs otherwise is rejected with the reason "Verification code does not
\* match".
C19_CodeComparisonIgnoresCase ==
  \A r \in Stored :
    \E derived \in {generateVerificationCode(r.hash)} :
      \E own \in {CaseVariants(r.verificationCode)}, wrong \in {WrongCodes(derived)} :
        \A code \in own \cup wrong :
          \E result \in {verifyReceiptByCode(r.tenantId, r.receiptId, code)} :
            /\ result.outcome = "ok"
            /\ result.value.receipt = r
            /\ result.value.valid <=> EqualIgnoringCase(code, derived)
            /\ code \in own => result.value.valid
            /\ code \in wrong => ~result.value.valid
            /\ result.value.reason =
                 IF result.value.valid THEN undefined
                 ELSE "Verification code does not match"

\* verifyReceiptByCode has just returned a valid result, in a state where a
\* receipt of tenant "a" has a code with letters in it and the lower-case form
\* of that code is accepted for it.
C19_Witness ==
  /\ last = Done("verifyReceiptByCode", "ok", "")
  /\ \E r \in Stored :
       /\ r.tenantId = "a"
       /\ toLowerCase(r.verificationCode) # r.verificationCode
       /\ verifyReceiptByCode("a", r.receiptId, toLowerCase(r.verificationCode)).value.valid
       /\ ~verifyReceiptByCode("a", r.receiptId, "0000-0000").value.valid

TamperedReason == "Receipt hash does not match content (tampered)"

\* C20 (checked under SpecTamper): verifyReceiptByCode does not re-verify the
\* hash.  For every stored receipt, the code derived from its stored hash is
\* accepted, also when verifyReceipt reports the receipt as tampered with; and
\* two stored receipts with the same stored hash get the same answer for every
\* code, whatever their content is.
C20_CodeCheckIgnoresContent ==
  /\ \A r \in Stored :
       \E derived \in {generateVerificationCode(r.hash)} :
         /\ verifyReceiptByCode(r.tenantId, r.receiptId, derived)
              = Returned([valid |-> TRUE, receipt |-> r, reason |-> undefined])
         /\ verifyReceipt(r.tenantId, r.receiptId).value.valid = verifyReceiptHash(r)
         /\ ~verifyReceiptHash(r) =>
              verifyReceipt(r.tenantId, r.receiptId).value.reason = TamperedReason
  /\ \A r1, r2 \in Stored :
       r1.hash = r2.hash =>
         \A code \in {"0000-0000", "ABC1-23", "abc1-23", r1.verificationCode} :
           verifyReceiptByCode(r1.tenantId, r1.receiptId, code).value.valid
             = verifyReceiptByCode(r2.tenantId, r2.receiptId, code).value.valid

\* The only stored receipt no longer matches its stored hash (verifyReceipt
\* reports it as tampered with), and verifyReceiptByCode has just returned a
\* valid result for it.
C20_Witness ==
  /\ last = Done("verifyReceiptByCode", "ok", "")
  /\ Cardinality(DOMAIN receipts) = 1
  /\ \A r \in Stored :
       /\ r.total = 2
       /\ verifyReceipt(r.tenantId, r.receiptId).value.reason = TamperedReason
       /\ verifyReceiptByCode(r.tenantId, r.receiptId,
                              generateVerificationCode(r.hash)).value.valid

\* The keys of PublicReceiptData.
PublicFields ==
  {"receiptId", "verificationCode", "issuedAt", "total", "currency", "status", "hash"}

\* C21 (checked under SpecStorage): the PII boundary.  For every stored receipt,
\* whatever its status, getPublicReceiptData returns a record whose keys are
\* exactly receiptId, verificationCode, issuedAt, total, currency, status and
\* hash, with the stored receipt's current values; tenantId, issuedBy, lineItems,
\* transactionId, metadata, paymentMethod and auditEventId are not among its
\* keys; and two stored receipts that agree on the seven fields have the same
\* public view.
C21_PublicViewIsTheProjection ==
  /\ \A r \in Stored :
       \E result \in {getPublicReceiptData(r.tenantId, r.receiptId)} :
         /\ result.outcome = "ok"
         /\ result.value # Null
         /\ DOMAIN result.value = PublicFields
         /\ \A f \in PublicFields : result.value[f] = r[f]
         /\ DOMAIN result.value \cap
              {"tenantId", "issuedBy", "lineItems", "transactionId", "metadata",
               "paymentMethod", "auditEventId"} = {}
  /\ \A r1, r2 \in Stored :
       (\A f \in PublicFields : r1[f] = r2[f]) =>
         getPublicReceiptData(r1.tenantId, r1.receiptId).value
           = getPublicReceiptData(r2.tenantId, r2.receiptId).value

\* getPublicReceiptData has just returned, while two receipts of different
\* tenants and transactions are stored that agree on the seven public fields,
\* and a stored receipt is voided.
C21_Witness ==
  /\ last = Done("getPublicReceiptData", "ok", "")
  /\ \E r1, r2 \in Stored :
       /\ r1.tenantId # r2.tenantId
       /\ r1.transactionId # r2.transactionId
       /\ \A f \in PublicFields : r1[f] = r2[f]
       /\ r1.status = VOIDED
       /\ getPublicReceiptData(r1.tenantId, r1.receiptId).value.status = VOIDED

\* C22 (checked under SpecService): verifyReceipt returns its failures as data,
\* with distinct reasons.  For an absent receipt it returns valid = false, the
\* reason "Receipt not found" and no receipt; for a stored receipt whose
\* recomputed hash differs from its stored hash it returns valid = false, the
\* tamper reason and the receipt; and it returns valid = true only when a
\* receipt with that id exists under the tenant and its recomputed hash equals
\* its stored hash.
C22_VerifyFailuresAreData ==
  \A tenantId \in ServiceTenants, receiptId \in LookupIds :
    \E result \in {verifyReceipt(tenantId, receiptId)} :
      /\ result.outcome = "ok"
      /\ getReceipt(tenantId, receiptId) = Null => result.value = NotFoundResult
      /\ \A r \in Stored :
           (r = getReceipt(tenantId, receiptId) /\ computeReceiptHash(r) # r.hash) =>
             /\ result.value = [valid |-> FALSE, receipt |-> r, reason |-> TamperedReason]
             /\ TamperedReason # NotFoundResult.reason
      /\ result.value.valid =>
           \E r \in Stored :
             /\ OwnedBy(tenantId, receiptId) = {r}
             /\ result.value.receipt = r
             /\ computeReceiptHash(r) = r.hash

\* C23 (checked under SpecService): read paths never throw.  For every tenantId
\* and id passed, no read operation ends by throwing; and when no stored receipt
\* has that tenantId and id (or transactionId), getReceipt,
\* getReceiptByTransaction and getPublicReceiptData return null, and
\* verifyReceipt and verifyReceiptByCode return a result with valid = false.
C23_ReadsNeverThrow ==
  \A tenantId \in TenantIds :
    /\ \A receiptId \in LookupIds :
         /\ svcGetReceipt(tenantId, receiptId).outcome = "ok"
         /\ getPublicReceiptData(tenantId, receiptId).outcome = "ok"
         /\ verifyReceipt(tenantId, receiptId).outcome = "ok"
         /\ \A code \in CodesToTry :
              verifyReceiptByCode(tenantId, receiptId, code).outcome = "ok"
         /\ OwnedBy(tenantId, receiptId) = {} =>
              /\ svcGetReceipt(tenantId, receiptId).value = Null
              /\ getPublicReceiptData(tenantId, receiptId).value = Null
              /\ ~verifyReceipt(tenantId, receiptId).value.valid
              /\ \A code \in CodesToTry :
                   ~verifyReceiptByCode(tenantId, receiptId, code).value.valid
    /\ \A transactionId \in TransactionIds :
         /\ svcGetReceiptByTransaction(tenantId, transactionId).outcome = "ok"
         /\ OfTransaction(tenantId, transactionId) = {} =>
              svcGetReceiptByTransaction(tenantId, transactionId).value = Null
    /\ \A limit \in Limits, offset \in Offsets :
         svcListReceipts(tenantId, limit, offset).outcome = "ok"

\* C24 (checked under SpecList): listReceipts(tenantId, limit, offset) returns
\* only receipts of the given tenant, each of them once in the full list, in
\* non-increasing issuedAt order; for limit >= 0 and offset >= 0 it returns the
\* elements at positions offset .. offset + limit - 1 of the tenant's full
\* ordered sequence, so successive pages neither repeat nor skip a receipt; and
\* a void or a refund does not change the position of any receipt.
C24_ListIsOrderedAndPaged ==
  /\ [](\A tenantId \in ServiceTenants :
          \E full \in {svcListReceipts(tenantId, 100, 0).value} :
            /\ \A i \in 1..Len(full) : full[i].tenantId = tenantId
            /\ {full[i] : i \in 1..Len(full)} = {r \in Stored : r.tenantId = tenantId}
            /\ \A i, j \in 1..Len(full) : i # j => full[i] # full[j]
            /\ \A i, j \in 1..Len(full) : i < j => full[i].issuedAt >= full[j].issuedAt
            /\ \A limit \in 0..3, offset \in 0..3 :
                 \E page \in {svcListReceipts(tenantId, limit, offset).value} :
                   /\ Len(page) = Min(limit, IF offset > Len(full) THEN 0
                                             ELSE Len(full) - offset)
                   /\ \A i \in 1..Len(page) : page[i] = full[offset + i]
            /\ svcListReceipts(tenantId, 1, 0).value \o svcListReceipts(tenantId, 1, 1).value
                 \o svcListReceipts(tenantId, 1, 2).value = full)
  /\ [][last'.op \in {"voidReceipt", "refundReceipt"} =>
          \A tenantId \in ServiceTenants :
            \E before \in {svcListReceipts(tenantId, 100, 0).value},
               after \in {svcListReceipts(tenantId, 100, 0).value'} :
              /\ Len(after) = Len(before)
              /\ \A i \in 1..Len(before) : after[i].receiptId = before[i].receiptId]_vars

\* listReceipts has just returned for a tenant with two receipts, of which the
\* one stored first is the older one (the sort moves it behind) and one is
\* voided.
C24_Witness ==
  /\ last = Done("listReceipts", "ok", "")
  /\ Len(receiptKeys) = 2
  /\ receipts[receiptKeys[1]].tenantId = "a"
  /\ receipts[receiptKeys[2]].tenantId = "a"
  /\ receipts[receiptKeys[1]].issuedAt < receipts[receiptKeys[2]].issuedAt
  /\ receipts[receiptKeys[1]].status = VOIDED
  /\ svcListReceipts("a", 1, 1).value = <<receipts[receiptKeys[1]]>>

\* C25 (checked under SpecService): verification is idempotent and free of side
\* effects.  getReceipt, getReceiptByTransaction, verifyReceipt,
\* verifyReceiptByCode, getPublicReceiptData and listReceipts leave the receipts
\* and the transaction index as they were; verifyReceipt reads nothing but the
\* receipts, so called again right after a verifyReceipt it returns the same
\* valid flag and the same receipt, with the same hash.
C25_ReadsLeaveTheStoreAlone ==
  [][last'.op \in {"getReceipt", "getReceiptByTransaction", "verifyReceipt",
                   "verifyReceiptByCode", "getPublicReceiptData", "listReceipts"} =>
       /\ receipts' = receipts
       /\ receiptKeys' = receiptKeys
       /\ transactionIndex' = transactionIndex]_vars

\* verifyReceipt has just returned a valid result for the receipt of tenant "a",
\* the only one stored, and the same call made now returns valid = true again.
C25_Witness ==
  /\ last = Done("verifyReceipt", "ok", "")
  /\ Cardinality(DOMAIN receipts) = 1
  /\ \A r \in Stored :
       /\ r.tenantId = "a"
       /\ verifyReceipt("a", r.receiptId).value.valid
       /\ verifyReceipt("a", r.receiptId).value.receipt.hash = r.hash

\* C26 (checked under Spec): a successful voidReceipt on an issued receipt stores
\* the receipt with status voided and with the metadata it had, extended with
\* voidedBy = input.voidedBy, voidedAt, voidReason = input.reason and
\* voidAuditEventId = input.auditEventId; refundReceipt does the same with status
\* refunded and refundedBy, refundedAt, refundReason, refundAuditEventId.  Every
\* other metadata key keeps its value, and no other receipt changes.
C26_StatusChangeExtendsMetadata ==
  /\ [](\A r \in Stored, time \in Times :
          /\ \A input \in VoidInputs :
               \E u \in {voidUpdates(r, input, time)} :
                 /\ DOMAIN u = {"status", "metadata"}
                 /\ u.status = VOIDED
                 /\ u.metadata.kv.voidedBy = input.voidedBy
                 /\ u.metadata.kv.voidedAt = toISOString(time)
                 /\ u.metadata.kv.voidReason = input.reason
                 /\ u.metadata.kv.voidAuditEventId = input.auditEventId
          /\ \A input \in RefundInputs :
               \E u \in {refundUpdates(r, input, time)} :
                 /\ DOMAIN u = {"status", "metadata"}
                 /\ u.status = REFUNDED
                 /\ u.metadata.kv.refundedBy = input.refundedBy
                 /\ u.metadata.kv.refundedAt = toISOString(time)
                 /\ u.metadata.kv.refundReason = input.reason
                 /\ u.metadata.kv.refundAuditEventId = input.auditEventId)
  /\ [][(last'.op \in {"voidReceipt", "refundReceipt"} /\ last'.outcome = "ok") =>
          \E k \in DOMAIN receipts :
            \E added \in {IF last'.op = "voidReceipt"
                            THEN {"voidedBy", "voidedAt", "voidReason", "voidAuditEventId"}
                            ELSE {"refundedBy", "refundedAt", "refundReason",
                                  "refundAuditEventId"}},
               before \in {Spread(receipts[k].metadata)} :
              /\ receipts[k].status = ISSUED
              /\ DOMAIN receipts' = DOMAIN receipts
              /\ \A other \in DOMAIN receipts \ {k} : receipts'[other] = receipts[other]
              /\ receipts'[k].status = IF last'.op = "voidReceipt" THEN VOIDED ELSE REFUNDED
              /\ receipts'[k].metadata.defined
              /\ DOMAIN receipts'[k].metadata.kv = DOMAIN before \cup added
              /\ \A key \in DOMAIN before \ added :
                   receipts'[k].metadata.kv[key] = before[key]
              /\ IF last'.op = "voidReceipt"
                   THEN \E input \in VoidInputs, time \in Times :
                          receipts'[k].metadata
                            = voidUpdates(receipts[k], input, time).metadata
                   ELSE \E input \in RefundInputs, time \in Times :
                          receipts'[k].metadata
                            = refundUpdates(receipts[k], input, time).metadata]_vars

\* voidReceipt has just succeeded on a receipt that was generated with caller
\* metadata: the receipt is voided, it carries the four void keys and it kept
\* its note.
C26_Witness ==
  /\ last = Done("voidReceipt", "ok", "")
  /\ \E r \in Stored :
       /\ r.status = VOIDED
       /\ r.metadata.defined
       /\ DOMAIN r.metadata.kv =
            {"note", "voidedBy", "voidedAt", "voidReason", "voidAuditEventId"}
       /\ r.metadata.kv.note = "n"
       /\ r.metadata.kv.voidedBy = "v"
       /\ r.metadata.kv.voidReason = "r"

\* C27 (checked under SpecValidation): validation precedes any state change.
\* generateReceipt, voidReceipt and refundReceipt called with a malformed input
\* (an empty tenantId, no line item, a quantity that is not positive, a negative
\* price, a currency not of length 3, an empty reason or actor) fail with the
\* validation error, whatever the store holds, and a call that fails validation
\* leaves the store as it was.
C27_ValidationFirst ==
  /\ [](/\ \A input \in BadCreateInputs, receiptId \in GeneratedIds, time \in Times :
             generateReceipt(input, receiptId, time).outcome = "ValidationError"
        /\ \A input \in BadVoidInputs : voidReceiptOutcome(input) = "ValidationError"
        /\ \A input \in BadRefundInputs : refundReceiptOutcome(input) = "ValidationError")
  /\ [][last'.outcome = "ValidationError" =>
          /\ receipts' = receipts
          /\ receiptKeys' = receiptKeys
          /\ transactionIndex' = transactionIndex]_vars

\* voidReceipt has just failed validation while the receipt its well-formed
\* variant names is stored and issued, so that only validation stood in the way.
C27_Witness ==
  /\ last = Done("voidReceipt", "ValidationError", "")
  /\ \A input \in ConcVoidInputs :
       /\ voidReceiptOutcome(input) = "ok"
       /\ voidReceiptOutcome([input EXCEPT !.reason = ""]) = "ValidationError"
       /\ getReceipt(input.tenantId, input.receiptId).status = ISSUED

\* C28 (checked under SpecStorage): a create rejected with Conflict writes
\* nothing.  After a createReceipt or a generateReceipt that failed with
\* Conflict, the receipt map and the transaction index are what they were
\* before the call, the receipt that already existed included.
C28_ConflictWritesNothing ==
  [][last'.outcome = "Conflict" =>
       /\ last'.op \in {"createReceipt", "generateReceipt"}
       /\ receipts' = receipts
       /\ receiptKeys' = receiptKeys
       /\ transactionIndex' = transactionIndex
       /\ generated' = generated]_vars

\* createReceipt has just been rejected because its receipt id is taken, for a
\* receipt whose transaction is not in the index: a write ahead of the checks
\* would show.
C28_Witness ==
  /\ last = Done("createReceipt", "Conflict", "Receipt already exists")
  /\ \E receipt \in StorageReceipts :
       /\ getKey(receipt.tenantId, receipt.receiptId) \in DOMAIN receipts
       /\ getTransactionKey(receipt.tenantId, receipt.transactionId)
            \notin DOMAIN transactionIndex

\* C29 (checked under SpecService): receipts are never deleted.  Once
\* getReceipt(tenantId, receiptId) returns a receipt, it returns a receipt with
\* the same receiptId and tenantId after every call of the service, a mutation
\* or a read, hence in every later state.
C29_ReceiptsAreNeverDeleted ==
  /\ [](\A tenantId \in ServiceTenants, receiptId \in LookupIds :
          \E key \in {getKey(tenantId, receiptId)} :
            svcGetReceipt(tenantId, receiptId).value =
              IF key \in DOMAIN receipts THEN receipts[key] ELSE Null)
  /\ [][\A key \in DOMAIN receipts :
          /\ key \in DOMAIN receipts'
          /\ receipts'[key].receiptId = receipts[key].receiptId
          /\ receipts'[key].tenantId = receipts[key].tenantId]_vars

\* Two receipts are stored, one voided and one refunded, and a second receipt
\* was generated after the first status change: every kind of mutation has
\* acted on a store that held a receipt.
C29_Witness ==
  /\ Cardinality(DOMAIN receipts) = 2
  /\ \E r1, r2 \in Stored : r1.status = VOIDED /\ r2.status = REFUNDED
  /\ last.op = "getReceipt"
  /\ \A r \in Stored : svcGetReceipt(r.tenantId, r.receiptId).value = r

\* C30 (checked under Spec): the canonical form preserves line-item order and
\* ignores key order.  For every stored receipt, the two payloads that differ
\* from it only in carrying the same two distinct line items in the two possible
\* orders have different canonical forms and different hashes.  (The keys of the
\* hash input and of a line item are written in the order of the sorted key
\* array, whatever order they were inserted in: a record of the model carries no
\* insertion order, so that half holds by construction of CanonicalSrc.)
C30_CanonicalFormKeepsItemOrder ==
  \A r \in Stored :
    \E first \in {Coffee}, second \in {[Coffee EXCEPT !.description = "Pastry", !.quantity = 1]} :
      /\ CanonicalSrc([r EXCEPT !.lineItems = <<first, second>>])
           # CanonicalSrc([r EXCEPT !.lineItems = <<second, first>>])
      /\ computeReceiptHash([r EXCEPT !.lineItems = <<first, second>>])
           # computeReceiptHash([r EXCEPT !.lineItems = <<second, first>>])

\* C31 (checked under SpecFaulty, where any storage call may reject): no retry at
\* the service layer.  Every call of generateReceipt has made at most one storage
\* call, a createReceipt; every call of voidReceipt or refundReceipt has made at
\* most one getReceipt followed by at most one updateReceipt; and a storage call
\* that rejected is the last storage call of its service call, which ends with
\* the error the storage rejected with.
C31_NoRetryAtTheServiceLayer ==
  \A c \in CallIds :
    \E call \in {calls[c]} :
      /\ call.op = "generateReceipt" =>
           /\ Len(call.storageCalls) <= 1
           /\ \A i \in 1..Len(call.storageCalls) :
                call.storageCalls[i].method = "createReceipt"
      /\ call.op \in {"voidReceipt", "refundReceipt"} =>
           /\ Len(call.storageCalls) <= 2
           /\ Len(call.storageCalls) >= 1 => call.storageCalls[1].method = "getReceipt"
           /\ Len(call.storageCalls) = 2 => call.storageCalls[2].method = "updateReceipt"
      /\ \A i \in 1..Len(call.storageCalls) :
           call.storageCalls[i].error # "" =>
             /\ i = Len(call.storageCalls)
             /\ call.phase \in {"settling", "done"} =>
                  /\ call.outcome # "ok"
                  /\ call.message = call.storageCalls[i].error
                  /\ call.receipt = Null

\* A voidReceipt whose updateReceipt rejected after its getReceipt had resolved
\* has settled with that error, the receipt is still issued, and a
\* generateReceipt whose createReceipt rejected has settled as well.
C31_Witness ==
  /\ \E c \in CallIds :
       /\ calls[c].op = "voidReceipt"
       /\ calls[c].phase = "done"
       /\ Len(calls[c].storageCalls) = 2
       /\ calls[c].storageCalls[2].error = "ECONNRESET"
       /\ calls[c].message = "ECONNRESET"
  /\ \E c \in CallIds :
       /\ calls[c].op = "generateReceipt"
       /\ calls[c].phase = "done"
       /\ calls[c].outcome = "StorageError"
  /\ \A r \in Stored : r.status = ISSUED
  /\ Stored # {}

\* C32 (checked under SpecStorage): updateReceipt on a (tenantId, receiptId) that
\* has no stored receipt, that is, no stored receipt has that tenantId and that
\* receiptId, fails with the error 'Receipt not found: <receiptId>' and creates
\* nothing: the receipt map, its order and the transaction index are unchanged,
\* and getReceipt(tenantId, receiptId) returns null afterwards.
C32_UpdateOfMissingReceiptFails ==
  [][\A tenantId \in {"a", "a:b"}, receiptId \in LookupIds, updates \in StorageUpdates :
       (OwnedBy(tenantId, receiptId) = {} /\ StorageUpdate(tenantId, receiptId, updates))
         => /\ last'.outcome = "NotFound"
            /\ last'.message = "Receipt not found: " \o receiptId
            /\ receipts' = receipts
            /\ receiptKeys' = receiptKeys
            /\ transactionIndex' = transactionIndex
            /\ getReceipt(tenantId, receiptId)' = Null]_vars

\* C33 (checked under SpecStorage, the store under generateReceipt, createReceipt
\* and updateReceipt): index consistency.  In every reachable state every stored
\* receipt r sits under the key of (r.tenantId, r.receiptId) and the transaction
\* index maps the key of (r.tenantId, r.transactionId) to r.receiptId; every
\* entry of the transaction index is the entry of a stored receipt with that
\* tenantId, transactionId and receiptId; and the two maps hold the same number
\* of entries.
C33_IndexConsistency ==
  /\ \A key \in DOMAIN receipts :
       \E r \in {receipts[key]} :
         /\ key = getKey(r.tenantId, r.receiptId)
         /\ getTransactionKey(r.tenantId, r.transactionId) \in DOMAIN transactionIndex
         /\ transactionIndex[getTransactionKey(r.tenantId, r.transactionId)] = r.receiptId
  /\ \A txKey \in DOMAIN transactionIndex :
       \E r \in Stored :
         /\ getTransactionKey(r.tenantId, r.transactionId) = txKey
         /\ r.receiptId = transactionIndex[txKey]
  /\ Cardinality(DOMAIN receipts) = Cardinality(DOMAIN transactionIndex)

\* Two receipts are stored, one of them under a receipt id that holds the key
\* separator, one of them changed by an updateReceipt that has just returned.
C33_Witness ==
  /\ Cardinality(DOMAIN receipts) = 2
  /\ Cardinality(DOMAIN transactionIndex) = 2
  /\ \E r \in Stored : r.receiptId = "b:c"
  /\ \E r \in Stored : r.status = VOIDED /\ r.total = 2
  /\ last.op = "updateReceipt"
  /\ last.outcome = "ok"

\* C34 (checked under SpecStorage): getReceiptByTransaction agrees with
\* getReceipt.  In every reachable state, for every tenant t and transaction x,
\* getReceiptByTransaction(t, x) returns a receipt exactly when a receipt with
\* tenantId t and transactionId x is stored, and the receipt r it returns is that
\* receipt as it is stored now: r = getReceipt(t, r.receiptId).
C34_ByTransactionAgreesWithGet ==
  \A tenantId \in {"a", "a:b"}, transactionId \in TransactionIds :
    \E r \in {getReceiptByTransaction(tenantId, transactionId)} :
      /\ r # Null <=> OfTransaction(tenantId, transactionId) # {}
      /\ r # Null =>
           /\ r \in OfTransaction(tenantId, transactionId)
           /\ r = getReceipt(tenantId, r.receiptId)

\* C35 (checked under SpecConc, calls in flight): the audit trail of a status
\* change is never lost.  In every reachable state, for every voidReceipt call
\* that has returned its receipt, the stored receipt's metadata holds that
\* call's voidedBy and voidReason, and for every refundReceipt call that has
\* returned its receipt it holds that call's refundedBy and refundReason,
\* whatever other calls on the same receipt were between their getReceipt and
\* their updateReceipt when the call returned.
C35_AuditTrailIsNeverLost ==
  \A c \in CallIds :
    (calls[c].phase = "done" /\ calls[c].outcome = "ok"
       /\ calls[c].op \in {"voidReceipt", "refundReceipt"})
      => \E input \in {calls[c].input} :
           \E metadata \in {receipts[getKey(input.tenantId, input.receiptId)].metadata} :
             /\ metadata.defined
             /\ calls[c].op = "voidReceipt" =>
                  /\ {"voidedBy", "voidReason"} \subseteq DOMAIN metadata.kv
                  /\ metadata.kv["voidedBy"] = input.voidedBy
                  /\ metadata.kv["voidReason"] = input.reason
             /\ calls[c].op = "refundReceipt" =>
                  /\ {"refundedBy", "refundReason"} \subseteq DOMAIN metadata.kv
                  /\ metadata.kv["refundedBy"] = input.refundedBy
                  /\ metadata.kv["refundReason"] = input.reason

\* C36 (checked under SpecMetadata, where generateReceipt is given every kind of
\* metadata the schema accepts): reserved metadata keys track the status.  In
\* every reachable state a stored receipt's metadata holds the keys voidedBy and
\* voidReason if and only if its status is Voided, and the keys refundedBy and
\* refundReason if and only if its status is Refunded.
C36_ReservedKeysTrackStatus ==
  \A r \in Stored :
    \E keys \in {IF r.metadata.defined THEN DOMAIN r.metadata.kv ELSE {}} :
      /\ {"voidedBy", "voidReason"} \subseteq keys <=> r.status = VOIDED
      /\ {"refundedBy", "refundReason"} \subseteq keys <=> r.status = REFUNDED

====
